---------------------------- MODULE Spec2Model ----------------------------
(***************************************************************************)
(* A model of qmk-hermit: staging of out-of-tree keyboard sources, the     *)
(* rules.mk cascade parser, layout-type inference and make-target          *)
(* composition, in the direct entry point (src/qmk_hermit.py) and in the   *)
(* containerized one (src/qmk_hermit/__main__.py, src/qmk_hermit/build.py).*)
(*                                                                         *)
(* Python strings are TLA+ strings; TLC evaluates Len, \o, SubSeq, Head    *)
(* and Tail on them, so every regular expression and every string method   *)
(* of the source is computed character by character.                       *)
(***************************************************************************)
EXTENDS Naturals, Sequences, FiniteSets, TLC

VARIABLES
    \* ---- rules.mk parsing (parse_rulesmk, both implementations)
    lines,            \* the physical lines of the rules file parsed last
    prior_rules,      \* qmk_hermit.py: parsed_rules before that file
    parsed_rules,     \* qmk_hermit.py: parsed_rules after it
    b_prior_rules,    \* build.py: parsed_rules before that file
    b_parsed_rules,   \* build.py: parsed_rules after it
    nfiles,           \* number of rules files folded so far
    \* ---- one run of an entry point
    fs,               \* the filesystem: physical path -> node
    entry,            \* "direct" (qmk_hermit.py) or "container" (__main__.py, build.py)
    stage,            \* how far the run has come
    keyboard_name,    \* the keyboard name handed to parse_keyboard_rules
    rules_read,       \* the rules files find_rules yielded, in order
    keyboard_rules,   \* the dict parse_keyboard_rules returned
    keymap_name,      \* the keymap identity (tmp_keymap_name, args.layout)
    flash,            \* args.flash: "False", "True", "l" or "r"
    extra_args,       \* the arguments argparse did not recognise
    fragments,        \* list(make_target())
    make_cmd,         \* the command handed to subprocess.Popen
    warned,           \* logger.warning was called
    \* ---- staging of an out-of-tree keyboard
    linked,           \* the (src, dst) pairs make_symlink completed in the last staging
    volumes,          \* __main__.py: the volumes mapping, destination -> source
    nstaged,          \* number of stagings so far
    nedits,           \* number of edits of the source directory since the last one
    \* ---- layout-type inference
    layout_type,      \* what guess_layout_type returned
    \* ---- the front of a run
    fresh,            \* args.fresh
    effects,          \* what the run has done so far, in order
    exit_code,        \* the value the entry point returned
    \* ---- the build tool and the collection of its outputs
    into,             \* args.into
    extensions,       \* build.py: args.extensions
    args_name,        \* build.py: args.name
    returncode,       \* process.returncode of make
    copied,           \* the destinations shutil.copy wrote in this run
    \* ---- runs of the direct entry point one after the other
    layout_arg,       \* args.layout
    nruns,            \* number of runs begun
    \* ---- invocations running at the same time
    procs,            \* the position of each invocation
    \* ---- the preprocessor subprocess of __main__.py guess_layout_type
    proc              \* the parent's position, the child's pending output, the pipes

rvars == <<lines, prior_rules, parsed_rules, b_prior_rules, b_parsed_rules, nfiles>>
kvars == <<fs, entry, stage, keyboard_name, rules_read, keyboard_rules>>

tvars == <<keymap_name, flash, extra_args, fragments, make_cmd, warned>>

svars == <<linked, volumes, nstaged, nedits>>

lvars == <<layout_type>>

evars == <<fresh, effects, exit_code>>

pvars == <<layout_arg, nruns>>

avars == <<into, extensions, args_name, returncode, copied>>

\* the variables of the later stages of a run
xvars == <<avars, pvars, procs, proc>>

vars == <<rvars, kvars, tvars, svars, lvars, evars, xvars>>

-----------------------------------------------------------------------------
(* Bounds of the model.                                                    *)

\* longest rules file, in physical lines
MaxLines == 2
\* longest cascade, in rules files
MaxFiles == 2
\* most extra arguments on a command line
MaxExtra == 3
\* most entries of an out-of-tree keyboard directory
MaxEntries == 4
\* longest source file of a layout directory, in lines
MaxLayoutLines == 2
\* most stagings of the same source directory
MaxStagings == 2
\* most edits of the source directory between two stagings
MaxEdits == 1
\* most runs against the same temporary tree
MaxRuns == 2
\* most output of a preprocessor run on one stream, in blocks
MaxOutput == 3

-----------------------------------------------------------------------------
(* Python values and string methods.                                       *)

\* A Python value that is either None or a str.
PyNone == [isNone |-> TRUE, s |-> ""]
PyStr(s) == [isNone |-> FALSE, s |-> s]

\* Python truthiness of such a value: None and '' are false.
Truthy(v) == ~v.isNone /\ v.s # ""

At(s, i) == SubSeq(s, i, i)
\* s[i-1:i] in C: false past either end of s
CharIn(s, i, C) == i >= 1 /\ i <= Len(s) /\ At(s, i) \in C

Letters == {"a","b","c","d","e","f","g","h","i","j","k","l","m","n","o","p","q",
            "r","s","t","u","v","w","x","y","z",
            "A","B","C","D","E","F","G","H","I","J","K","L","M","N","O","P","Q",
            "R","S","T","U","V","W","X","Y","Z"}
Digits == {"0","1","2","3","4","5","6","7","8","9"}

\* the regular expression classes \w and \s
IsWord(c) == c \in Letters \cup Digits \cup {"_"}
IsSpace(c) == c \in {" ", "\t", "\n", "\r", "\f"}

\* s.startswith(p) at offset i (1-based): s[i-1:].startswith(p)
StartsAt(s, i, p) == i + Len(p) - 1 <= Len(s) /\ SubSeq(s, i, i + Len(p) - 1) = p
startswith(s, p) == StartsAt(s, 1, p)
endswith(s, p) == Len(p) <= Len(s) /\ SubSeq(s, Len(s) - Len(p) + 1, Len(s)) = p

\* first index >= i of a character of s satisfying / failing a class; Len(s)+1 if none
RECURSIVE SkipSpace(_, _)
SkipSpace(s, i) == IF i <= Len(s) /\ IsSpace(At(s, i)) THEN SkipSpace(s, i + 1) ELSE i
RECURSIVE SkipWord(_, _)
SkipWord(s, i) == IF i <= Len(s) /\ IsWord(At(s, i)) THEN SkipWord(s, i + 1) ELSE i

\* s.index(c) as a 1-based index, 0 when c is not in s
RECURSIVE IndexFrom(_, _, _)
IndexFrom(s, c, i) ==
    IF i > Len(s) THEN 0 ELSE IF At(s, i) = c THEN i ELSE IndexFrom(s, c, i + 1)
IndexOf(s, c) == IndexFrom(s, c, 1)

\* s.rstrip(): trailing whitespace removed
RECURSIVE rstrip(_)
rstrip(s) ==
    IF s # "" /\ IsSpace(At(s, Len(s))) THEN rstrip(SubSeq(s, 1, Len(s) - 1)) ELSE s

\* s.rstrip(c) and s.lstrip(c) for a one-character c: every such character removed
RECURSIVE rstrip_chr(_, _)
rstrip_chr(s, c) ==
    IF s # "" /\ At(s, Len(s)) = c THEN rstrip_chr(SubSeq(s, 1, Len(s) - 1), c) ELSE s
RECURSIVE lstrip_chr(_, _)
lstrip_chr(s, c) ==
    IF s # "" /\ At(s, 1) = c THEN lstrip_chr(Tail(s), c) ELSE s

RECURSIVE SeqsUpTo(_, _)
SeqsUpTo(S, n) ==
    IF n = 0 THEN {<< >>}
    ELSE LET shorter == SeqsUpTo(S, n - 1)
         IN  shorter \cup {Append(q, x) : q \in {r \in shorter : Len(r) = n - 1}, x \in S}

-----------------------------------------------------------------------------
(* makefile_lines: comment stripping and line continuation.                *)

\* stripped_lines: cut at the first '#', then rstrip()
strip_line(line) ==
    LET h == IndexOf(line, "#")
    IN  rstrip(IF h > 0 THEN SubSeq(line, 1, h - 1) ELSE line)
stripped_lines(ls) == [i \in 1..Len(ls) |-> strip_line(ls[i])]

\* index of the first line at or after i that does not end with a backslash;
\* 0 when the input runs out first (next() raises StopIteration)
RECURSIVE LastOfRun(_, _)
LastOfRun(ls, i) ==
    IF i > Len(ls) THEN 0
    ELSE IF endswith(ls[i], "\\") THEN LastOfRun(ls, i + 1) ELSE i

\* continued_lines: the generator yields `line`, the last physical line of each
\* run; cont_line is computed and never yielded. A run cut short by the end of
\* the input ends the generator without a yield.
RECURSIVE continued_from(_, _)
continued_from(ls, i) ==
    IF i > Len(ls) THEN << >>
    ELSE LET j == LastOfRun(ls, i)
         IN  IF j = 0 THEN << >> ELSE <<ls[j]>> \o continued_from(ls, j + 1)
continued_lines(ls) == continued_from(ls, 1)

makefile_lines(ls) == continued_lines(stripped_lines(ls))

\* build.py carries its own copy of the same function
build_makefile_lines(ls) == continued_lines(stripped_lines(ls))

-----------------------------------------------------------------------------
(* parse_rulesmk: the assignment grammar and the operators.                *)

NoMatch == [ok |-> FALSE, name |-> "", op |-> "", val |-> ""]

\* the operator alternation (=|:=|\+=|\?=) tried at offset i
OpAt(s, i) ==
    IF StartsAt(s, i, "=") THEN "="
    ELSE IF StartsAt(s, i, ":=") THEN ":="
    ELSE IF StartsAt(s, i, "+=") THEN "+="
    ELSE IF StartsAt(s, i, "?=") THEN "?="
    ELSE ""

\* (.+) at offset i: up to the next newline, at least one character
DotPlus(s, i) ==
    LET nl  == IndexFrom(s, "\n", i)
        end == IF nl = 0 THEN Len(s) ELSE nl - 1
    IN  SubSeq(s, i, end)

\* regex.match(line) for (\w+)\s*(=|:=|\+=|\?=)\s*(.+)
regex_match(line) ==
    LET n  == SkipWord(line, 1)
        i  == SkipSpace(line, n)
        op == OpAt(line, i)
        j  == i + Len(op)
        k  == SkipSpace(line, j)
        \* \s* is greedy and gives characters back until (.+) has one
        v  == IF DotPlus(line, k) # "" THEN DotPlus(line, k)
              ELSE IF k > j /\ At(line, k - 1) # "\n" THEN At(line, k - 1) ELSE ""
    IN  IF n = 1 \/ op = "" \/ v = "" THEN NoMatch
        ELSE [ok |-> TRUE, name |-> SubSeq(line, 1, n - 1), op |-> op, val |-> v]

\* dict.get(name): None when the key is absent
get(d, name) == IF name \in DOMAIN d THEN d[name] ELSE PyNone
\* d[name] = v
put(d, name, v) == [k \in DOMAIN d \cup {name} |-> IF k = name THEN v ELSE d[k]]

\* the lambdas of `ops` (qmk_hermit.py)
op_set(old, new) == PyStr(new)
\* an append that joins without the separating space
op_append_nospace(old, new) == IF Truthy(old) THEN PyStr(old.s \o new) ELSE PyStr(new)
op_append(old, new) == IF Truthy(old) THEN PyStr(old.s \o " " \o new) ELSE PyStr(new)
op_default(old, new) == IF Truthy(old) THEN PyStr(new) ELSE old
ops(op, old, new) ==
    CASE op = "="  -> op_set(old, new)
      [] op = ":=" -> op_set(old, new)
      [] op = "+=" -> op_append(old, new)
      [] op = "?=" -> op_default(old, new)

\* one iteration of the loop of parse_rulesmk (qmk_hermit.py)
apply_line(parsed, line) ==
    LET m == regex_match(line)
    IN  IF m.ok THEN put(parsed, m.name, ops(m.op, get(parsed, m.name), m.val))
        ELSE parsed

RECURSIVE fold_lines(_, _)
fold_lines(parsed, ls) ==
    IF ls = << >> THEN parsed ELSE fold_lines(apply_line(parsed, Head(ls)), Tail(ls))

parse_rulesmk(ls, initial) == fold_lines(initial, makefile_lines(ls))

\* the lambdas of `ops` (build.py)
build_ops(op, old, new) ==
    CASE op = "="  -> PyStr(new)
      [] op = ":=" -> PyStr(new)
      [] op = "+=" -> IF Truthy(old) THEN PyStr(old.s \o " " \o new) ELSE PyStr(new)
      [] op = "?=" -> IF Truthy(old) THEN PyStr(new) ELSE old

\* one iteration of the loop of parse_rulesmk (build.py)
build_apply_line(parsed, line) ==
    LET m == regex_match(line)
    IN  IF m.ok
        THEN put(parsed, m.name,
                 IF m.name \in DOMAIN parsed
                 THEN build_ops(m.op, parsed[m.name], m.val) ELSE PyStr(m.val))
        ELSE parsed

RECURSIVE build_fold_lines(_, _)
build_fold_lines(parsed, ls) ==
    IF ls = << >> THEN parsed
    ELSE build_fold_lines(build_apply_line(parsed, Head(ls)), Tail(ls))

build_parse_rulesmk(ls, initial) == build_fold_lines(initial, build_makefile_lines(ls))

EmptyDict == [k \in {} |-> PyNone]

-----------------------------------------------------------------------------
(* The filesystem. A path is the sequence of its components from the root; *)
(* fs maps each physical path to a directory, a regular file (with its     *)
(* lines) or a symbolic link (with its absolute target). Each node also    *)
(* records who made it: "user" for what was there, "tool" for what a run   *)
(* of the program created.                                                 *)

Dir == [kind |-> "dir", to |-> << >>, data |-> << >>, by |-> "user"]
File(data) == [kind |-> "file", to |-> << >>, data |-> data, by |-> "user"]
ToolDir == [kind |-> "dir", to |-> << >>, data |-> << >>, by |-> "tool"]
ToolLink(to) == [kind |-> "link", to |-> to, data |-> << >>, by |-> "tool"]

\* what a lookup returns for a path that does not resolve
NoPath == <<"?">>

Parent(p) == SubSeq(p, 1, Len(p) - 1)
Name(p) == p[Len(p)]
IsPrefix(p, q) == Len(p) <= Len(q) /\ SubSeq(q, 1, Len(p)) = p

\* the physical path of p with the links in every component followed
RECURSIVE Resolve(_, _)
\* the physical path of p with the links in every component but the last followed
Phys(f, p) ==
    IF p = << >> THEN << >>
    ELSE LET d == Resolve(f, Parent(p))
         IN  IF d = NoPath \/ f[d].kind # "dir" THEN NoPath ELSE Append(d, Name(p))
Resolve(f, p) ==
    LET q == Phys(f, p)
    IN  IF q = NoPath \/ q \notin DOMAIN f THEN NoPath
        ELSE IF f[q].kind = "link" THEN Resolve(f, f[q].to) ELSE q

\* Path.exists, Path.is_dir, Path.is_file follow links; Path.is_symlink does not
exists(f, p) == Resolve(f, p) # NoPath
is_dir(f, p) == exists(f, p) /\ f[Resolve(f, p)].kind = "dir"
is_file(f, p) == exists(f, p) /\ f[Resolve(f, p)].kind = "file"
lexists(f, p) == Phys(f, p) # NoPath /\ Phys(f, p) \in DOMAIN f
is_symlink(f, p) == lexists(f, p) /\ f[Phys(f, p)].kind = "link"

\* open(p) iterated: the lines of the file p resolves to
read_lines(f, p) == f[Resolve(f, p)].data

\* os.listdir(p): the names of the entries of the directory p resolves to
listdir(f, p) ==
    LET d == Resolve(f, p)
    IN  {Name(q) : q \in {r \in DOMAIN f : r # << >> /\ Parent(r) = d}}

\* the outcome of a system call: the filesystem after it and its errno ("" for none)
Done(f) == [fs |-> f, err |-> ""]
Raise(f, errno) == [fs |-> f, err |-> errno]

\* os.mkdir(p)
mkdir(f, p) ==
    LET q == Phys(f, p)
    IN  IF q = NoPath THEN Raise(f, "ENOENT")
        ELSE IF q \in DOMAIN f THEN Raise(f, "EEXIST")
        ELSE Done((q :> ToolDir) @@ f)

\* os.makedirs(p, exist_ok=True) after the recursive call on the parent came
\* back as `up`: a FileExistsError of that call is swallowed; an OSError of
\* the final mkdir is, when p is a directory
mkdir_exist_ok(made, f, p) == IF made.err # "" /\ is_dir(f, p) THEN Done(f) ELSE made
makedirs_tail(up, p) ==
    IF up.err \notin {"", "EEXIST"} THEN up ELSE mkdir_exist_ok(mkdir(up.fs, p), up.fs, p)
RECURSIVE makedirs(_, _)
makedirs(f, p) ==
    IF p = << >> THEN Done(f)
    ELSE makedirs_tail(IF exists(f, Parent(p)) THEN Done(f) ELSE makedirs(f, Parent(p)), p)

\* os.symlink(src, dst)
symlink(f, src, dst) ==
    LET q == Phys(f, dst)
    IN  IF q = NoPath THEN Raise(f, "ENOENT")
        ELSE IF q \in DOMAIN f THEN Raise(f, "EEXIST")
        ELSE Done((q :> ToolLink(src)) @@ f)

\* os.remove(p): unlinks p itself, never its target
remove(f, p) ==
    LET q == Phys(f, p)
    IN  IF q = NoPath \/ q \notin DOMAIN f THEN Raise(f, "ENOENT")
        ELSE IF f[q].kind = "dir" THEN Raise(f, "EISDIR")
        ELSE Done([r \in DOMAIN f \ {q} |-> f[r]])

\* shutil.rmtree(p, ignore_errors=True): refuses a symbolic link, unlinks the
\* links it meets inside without following them, and reports nothing
rmtree(f, p) ==
    IF is_symlink(f, p) \/ ~is_dir(f, p) THEN f
    ELSE LET d == Resolve(f, p)
         IN  [r \in {x \in DOMAIN f : ~IsPrefix(d, x)} |-> f[r]]

\* a filesystem of directories and files
MkFs(dirs, files) ==
    [p \in dirs \cup DOMAIN files |-> IF p \in dirs THEN Dir ELSE File(files[p])]

\* s.split(sep) for a one-character sep
RECURSIVE split(_, _)
split(s, sep) ==
    LET i == IndexOf(s, sep)
    IN  IF i = 0 THEN <<s>>
        ELSE <<SubSeq(s, 1, i - 1)>> \o split(SubSeq(s, i + 1, Len(s)), sep)

\* pathlib: the components of a relative path given as a string
IsPart(x) == x \notin {"", "."}
PathParts(s) == SelectSeq(split(s, "/"), IsPart)

-----------------------------------------------------------------------------
(* parse_keyboard_rules: the cascade of rules.mk files of a keyboard.      *)

\* qmk_hermit.py: for parent in reversed([keyboard_name,
\* *Path(keyboard_name).parents]); the parents of a relative path end with '.'
find_rules_candidates(home, name) ==
    LET parts == PathParts(name)
    IN  [k \in 1..(Len(parts) + 1) |->
            home \o <<"keyboards">> \o SubSeq(parts, 1, k - 1) \o <<"rules.mk">>]

\* build.py: for parent in reversed([keyboard_dir, *keyboard_dir.parents]); the
\* parents of an absolute path end with the root
build_find_rules_candidates(keyboard_dir) ==
    [k \in 1..(Len(keyboard_dir) + 1) |->
        SubSeq(keyboard_dir, 1, k - 1) \o <<"rules.mk">>]

\* if rules.is_file(): yield rules
RECURSIVE existing_files(_, _)
existing_files(f, cands) ==
    IF cands = << >> THEN << >>
    ELSE (IF is_file(f, Head(cands)) THEN <<Head(cands)>> ELSE << >>)
         \o existing_files(f, Tail(cands))

find_rules(f, home, name) == existing_files(f, find_rules_candidates(home, name))
build_find_rules(f, keyboard_dir) ==
    existing_files(f, build_find_rules_candidates(keyboard_dir))

RECURSIVE parse_files(_, _, _)
parse_files(f, paths, parsed) ==
    IF paths = << >> THEN parsed
    ELSE parse_files(f, Tail(paths), parse_rulesmk(read_lines(f, Head(paths)), parsed))
RECURSIVE build_parse_files(_, _, _)
build_parse_files(f, paths, parsed) ==
    IF paths = << >> THEN parsed
    ELSE build_parse_files(f, Tail(paths),
                           build_parse_rulesmk(read_lines(f, Head(paths)), parsed))

parse_keyboard_rules(f, home, name) == parse_files(f, find_rules(f, home, name), EmptyDict)
build_parse_keyboard_rules(f, keyboard_dir) ==
    build_parse_files(f, build_find_rules(f, keyboard_dir), EmptyDict)

\* is_valid_qmk_keyboard: any(qmk_home.glob('keyboards/**/' + keyboard_name)),
\* true of whatever exists under that name in keyboards/ or in a directory below
is_valid_qmk_keyboard(f, qmk_home, name) ==
    \E d \in {p \in DOMAIN f : IsPrefix(Append(qmk_home, "keyboards"), p) /\ f[p].kind = "dir"} :
        exists(f, d \o PathParts(name))

-----------------------------------------------------------------------------
(* Target composition: make_target and the make command.                   *)

UpperCase == "ABCDEFGHIJKLMNOPQRSTUVWXYZ"
LowerCase == "abcdefghijklmnopqrstuvwxyz"

\* s.lower()
RECURSIVE lower(_)
lower(s) ==
    IF s = "" THEN ""
    ELSE LET i == IndexOf(UpperCase, Head(s))
         IN  (IF i > 0 THEN At(LowerCase, i) ELSE Head(s)) \o lower(Tail(s))

\* sub in s
contains(s, sub) == \E i \in 1..Len(s) : StartsAt(s, i, sub)

\* sep.join(xs)
RECURSIVE join(_, _)
join(xs, sep) ==
    IF xs = << >> THEN ""
    ELSE IF Len(xs) = 1 THEN xs[1]
    ELSE xs[1] \o sep \o join(Tail(xs), sep)

\* lambda a: a.startswith(':')
is_make_target(a) == startswith(a, ":")
is_make_arg(a) == ~is_make_target(a)

\* partition(pred, xs): ts and fs, each in the order of xs
partition(xs) == [ts |-> SelectSeq(xs, is_make_target), fs |-> SelectSeq(xs, is_make_arg)]

\* a strip of one leading ':' only
strip_marker_once(target) == IF startswith(target, ":") THEN Tail(target) ELSE target
\* target.lstrip(':')
strip_marker(target) == lstrip_chr(target, ":")

\* the flash branch of make_target for a bootloader string already lowered
flash_target(bootloader, flash_arg) ==
    IF flash_arg \in {"l", "r"}
    THEN IF contains(bootloader, "dfu")
         THEN [frags |-> <<IF flash_arg = "r" THEN "dfu-split-right" ELSE "dfu-split-left">>,
               warned |-> FALSE]
         ELSE IF contains(bootloader, "caterina")
         THEN [frags |-> <<IF flash_arg = "r" THEN "avrdude-split-right"
                                             ELSE "avrdude-split-left">>,
               warned |-> FALSE]
         ELSE [frags |-> <<"flash">>, warned |-> TRUE]
    ELSE IF flash_arg = "True" THEN [frags |-> <<"flash">>, warned |-> FALSE]
    ELSE [frags |-> << >>, warned |-> FALSE]

\* list(make_target()): keyboard_rules.get('BOOTLOADER', '') returns the stored
\* value of a present key, and None has no lower(): AttributeError
make_target(kb, km, rules, flash_arg, make_targets) ==
    LET b == IF "BOOTLOADER" \in DOMAIN rules THEN rules["BOOTLOADER"] ELSE PyStr("")
    IN  IF flash_arg \in {"l", "r"} /\ b.isNone
        THEN [raised |-> TRUE, frags |-> << >>, warned |-> FALSE]
        ELSE LET ft == flash_target(lower(b.s), flash_arg)
             IN  [raised |-> FALSE,
                  frags  |-> <<kb, km>> \o ft.frags
                             \o [i \in 1..Len(make_targets) |-> strip_marker(make_targets[i])],
                  warned |-> ft.warned]

\* ['make', ':'.join(make_target()), *make_args]
make_command(frags, make_args) == <<"make", join(frags, ":")>> \o make_args

-----------------------------------------------------------------------------
(* Staging of an out-of-tree keyboard: make_symlink, renames and           *)
(* setup_temporary_keyboard.                                               *)

\* make_symlink(src, dst): an OSError of makedirs or symlink is retried after
\* os.remove(dst) when it is EEXIST and dst is a symbolic link, and raised else
symlink_after(prev, src, dst) == IF prev.err = "" THEN symlink(prev.fs, src, dst) ELSE prev
symlink_except(first, src, dst) ==
    IF first.err = "" THEN first
    ELSE IF first.err = "EEXIST" /\ is_symlink(first.fs, dst)
    THEN symlink_after(remove(first.fs, dst), src, dst)
    ELSE first
make_symlink(f, src, dst) ==
    symlink_except(symlink_after(makedirs(f, Parent(dst)), src, dst), src, dst)

\* path_hash: the hex digest of shake_128 over the resolved path; the model
\* holds it as a table of distinct digests
path_hash(p) ==
    CASE p = <<"usr", "foo">> -> "1a2b3c4d"
      [] p = <<"usr", "lay">> -> "5e6f7a8b"
      [] p = <<"qmk">>        -> "9c0d1e2f"
      [] OTHER                -> "00000000"

\* [-_ ]+ from offset i: the index after the run of separators
RECURSIVE SkipSeparators(_, _)
SkipSeparators(s, i) ==
    IF CharIn(s, i, {"-", "_", " "}) THEN SkipSeparators(s, i + 1) ELSE i

\* the last offset p >= from with s[p] = '.' and s[p+1] in 'ch'; 0 if none
RECURSIVE LastDotExt(_, _, _)
LastDotExt(s, from, p) ==
    IF p < from THEN 0
    ELSE IF CharIn(s, p, {"."}) /\ CharIn(s, p + 1, {"c", "h"}) THEN p
    ELSE LastDotExt(s, from, p - 1)

NoKeymap == [ok |-> FALSE, name |-> "", ext |-> ""]

\* re.match(r'keymap(?:[-_ ]+(.+))?\.(c|h)', fn): anchored at the start only.
\* The optional group is tried first: the separators give characters back
\* until (.+), greedy, can end right before the last '.c' or '.h'.
keymap_match(fn) ==
    IF ~startswith(fn, "keymap") THEN NoKeymap
    ELSE LET j == SkipSeparators(fn, 7)
             p == LastDotExt(fn, 9, Len(fn) - 1)
             \* the name starts after as many separators as leave it one character
             ns == IF j < p THEN j ELSE p - 1
         IN  IF j > 7 /\ p > 0
             THEN [ok |-> TRUE, name |-> SubSeq(fn, ns, p - 1), ext |-> At(fn, p + 1)]
             ELSE IF CharIn(fn, 7, {"."}) /\ CharIn(fn, 8, {"c", "h"})
             THEN [ok |-> TRUE, name |-> "", ext |-> At(fn, 8)]
             ELSE NoKeymap

\* renames with a primary file staged under the hashed name alone
renames_hashed_only(fn, src_name, dst_name) ==
    IF fn = src_name \o ".c" THEN << <<dst_name \o ".c">> >>
    ELSE IF fn = src_name \o ".h" THEN << <<dst_name \o ".h">> >>
    ELSE IF keymap_match(fn).ok
    THEN << <<"keymaps", IF keymap_match(fn).name = "" THEN "default" ELSE keymap_match(fn).name,
              "keymap." \o keymap_match(fn).ext>> >>
    ELSE << <<fn>> >>

\* renames(fn): the destination paths of a source file name, relative to the
\* staged directory; m.group(1) or 'default'
renames(fn, src_name, dst_name) ==
    IF fn = src_name \o ".c" THEN << <<dst_name \o ".c">>, <<fn>> >>
    ELSE IF fn = src_name \o ".h" THEN << <<dst_name \o ".h">>, <<fn>> >>
    ELSE LET m == keymap_match(fn)
         IN  IF m.ok
             THEN << <<"keymaps">>
                     \o SelectSeq(<<IF m.name = "" THEN "default" ELSE m.name>>, IsPart)
                     \o <<"keymap." \o m.ext>> >>
             ELSE << <<fn>> >>

\* the (source, destination) pairs of the two nested loops, in order
RECURSIVE link_pairs(_, _, _, _, _)
link_pairs(order, src_dir, dst_dir, src_name, dst_name) ==
    IF order = << >> THEN << >>
    ELSE LET fn == Head(order)
             rs == renames(fn, src_name, dst_name)
         IN  [i \in 1..Len(rs) |-> [src |-> Append(src_dir, fn), dst |-> dst_dir \o rs[i]]]
             \o link_pairs(Tail(order), src_dir, dst_dir, src_name, dst_name)

\* make_symlink over the pairs; the first OSError ends the loop
RECURSIVE link_all(_, _, _)
link_rest(r, pairs, done) ==
    IF r.err # "" THEN [fs |-> r.fs, err |-> r.err, linked |-> done]
    ELSE link_all(r.fs, Tail(pairs), done \cup {Head(pairs)})
link_all(f, pairs, done) ==
    IF pairs = << >> THEN [fs |-> f, err |-> "", linked |-> done]
    ELSE link_rest(make_symlink(f, Head(pairs).src, Head(pairs).dst), pairs, done)

keyboard_dst_dir(src_dir, qmk_tmp) == qmk_tmp \o <<"keyboards", "hermit", path_hash(src_dir)>>

\* setup_temporary_keyboard(src_dir, src_name, qmk_tmp), os.listdir(src_dir)
\* having returned `order`
setup_temporary_keyboard(f, order, src_dir, src_name, qmk_tmp) ==
    LET dst_dir == keyboard_dst_dir(src_dir, qmk_tmp)
    IN  link_all(rmtree(f, dst_dir),
                 link_pairs(order, src_dir, dst_dir, src_name, path_hash(src_dir)),
                 {})

\* user_keyboard_files(src_dir, src_name, dst_name) of the container entry
\* point: the (source, relative destination) pairs, src_dir.glob('*') having
\* returned `order`
user_keyboard_files(order, src_dir, src_name, dst_name) ==
    link_pairs(order, src_dir, << >>, src_name, dst_name)

-----------------------------------------------------------------------------
(* Layout-type inference: guess_layout_type of both entry points.          *)

\* the last index of the character c in s, 0 when c is not in s
RECURSIVE LastIndexFrom(_, _, _)
LastIndexFrom(s, c, i) ==
    IF i < 1 THEN 0 ELSE IF At(s, i) = c THEN i ELSE LastIndexFrom(s, c, i - 1)

\* the first index >= i at which p starts in s, 0 if none
RECURSIVE FindFrom(_, _, _)
FindFrom(s, p, i) ==
    IF i + Len(p) - 1 > Len(s) THEN 0
    ELSE IF StartsAt(s, i, p) THEN i ELSE FindFrom(s, p, i + 1)

\* re.findall(r'LAYOUT_(.+)\s*\(', line): from the first LAYOUT_ the greedy
\* (.+) runs to the last '(' of the line, so a line gives one match at most
layout_findall(line) ==
    LET i == FindFrom(line, "LAYOUT_", 1)
        p == LastIndexFrom(line, "(", Len(line))
    IN  IF i > 0 /\ p >= i + 8 THEN <<SubSeq(line, i + 7, p - 1)>> ELSE << >>

\* re.findall(r'LAYOUT_([^(]+)\s*\(', line): each match runs from a LAYOUT_
\* to the next '(' and the scan goes on after it
RECURSIVE container_findall_from(_, _)
container_findall_from(line, from) ==
    LET i == FindFrom(line, "LAYOUT_", from)
        q == IF i = 0 THEN 0 ELSE IndexFrom(line, "(", i + 7)
    IN  IF i = 0 \/ q = 0 THEN << >>
        ELSE IF q = i + 7 THEN container_findall_from(line, i + 1)
        ELSE <<SubSeq(line, i + 7, q - 1)>> \o container_findall_from(line, q + 1)
container_layout_findall(line) == container_findall_from(line, 1)

\* the matches of every line in turn
RECURSIVE find_occurences(_, _)
find_occurences(ls, container) ==
    IF ls = << >> THEN << >>
    ELSE (IF container THEN container_layout_findall(Head(ls)) ELSE layout_findall(Head(ls)))
         \o find_occurences(Tail(ls), container)

\* Counter(xs)[k]
count(xs, k) == Cardinality({i \in 1..Len(xs) : xs[i] = k})

\* for k, n in Counter(xs).most_common(1): return k -- the first key to have
\* the highest count; None for an empty Counter
most_common_key(xs) ==
    IF xs = << >> THEN PyNone
    ELSE LET best == CHOOSE i \in 1..Len(xs) :
                        /\ \A j \in 1..Len(xs) : count(xs, xs[j]) <= count(xs, xs[i])
                        /\ \A j \in 1..(i - 1) : count(xs, xs[j]) < count(xs, xs[i])
         IN  PyStr(xs[best])

\* the lines of the files of a directory that a glob yields, file after file
RECURSIVE lines_of(_, _, _)
lines_of(f, dir, names) ==
    IF names = << >> THEN << >>
    ELSE read_lines(f, Append(dir, Head(names))) \o lines_of(f, dir, Tail(names))

\* the names a file of the layout directory may have, in the order the
\* directory yields them (no two of them match the same glob)
LayoutOrder == <<"keymap.c", "layout.h">>

\* the entries of dir that end with suffix / start with prefix, in order
glob_suffix(f, dir, order, suffix) ==
    SelectSeq(order, LAMBDA n : endswith(n, suffix) /\ n \in listdir(f, dir))
glob_prefix(f, dir, order, prefix) ==
    SelectSeq(order, LAMBDA n : startswith(n, prefix) /\ n \in listdir(f, dir))

\* the C preprocessor on a file without directives: // comments are dropped
cpp_line(line) ==
    LET c == FindFrom(line, "//", 1)
    IN  IF c = 0 THEN line ELSE SubSeq(line, 1, c - 1) \o "\n"
cpp(ls) == [i \in 1..Len(ls) |-> cpp_line(ls[i])]

\* qmk_hermit.py guess_layout_type: the files of '**/*.c', then of '**/*.h'
guess_layout_type(f, src_dir) ==
    most_common_key(find_occurences(
        lines_of(f, src_dir, glob_suffix(f, src_dir, LayoutOrder, ".c"))
        \o lines_of(f, src_dir, glob_suffix(f, src_dir, LayoutOrder, ".h")), FALSE))

\* __main__.py guess_layout_type: the preprocessed files of 'keymap.*'
container_guess_layout_type(f, src_dir) ==
    most_common_key(find_occurences(
        cpp(lines_of(f, src_dir, glob_prefix(f, src_dir, LayoutOrder, "keymap."))), TRUE))

-----------------------------------------------------------------------------
(* Files written by the program: make_dir, copy_file, touch_file, and the  *)
(* collection of the build tool's outputs.                                 *)

ToolFile(data) == [kind |-> "file", to |-> << >>, data |-> data, by |-> "tool"]

\* make_dir(dst): if not dst.exists(): os.makedirs(dst, exist_ok=True)
make_dir(f, dst) == IF exists(f, dst) THEN Done(f) ELSE makedirs(f, dst)

\* the physical path open(p, 'w') writes: the links of every component are
\* followed, the last one included, also when the last link dangles
RECURSIVE WritePath(_, _)
WritePath(f, p) ==
    LET q == Phys(f, p)
    IN  IF q = NoPath THEN NoPath
        ELSE IF q \in DOMAIN f /\ f[q].kind = "link" THEN WritePath(f, f[q].to)
        ELSE q

\* open(p, 'w') and write data
write_file(f, p, data) ==
    LET w == WritePath(f, p)
    IN  IF w = NoPath THEN Raise(f, "ENOENT")
        ELSE IF w \in DOMAIN f /\ f[w].kind = "dir" THEN Raise(f, "EISDIR")
        ELSE Done((w :> ToolFile(data)) @@ f)

\* shutil.copy(src, dst): into dst when dst is a directory; SameFileError
\* when both name the same file
shutil_copy(f, src, dst) ==
    LET to == IF is_dir(f, dst) THEN Append(dst, Name(src)) ELSE dst
    IN  IF ~exists(f, src) THEN Raise(f, "ENOENT")
        ELSE IF is_dir(f, src) THEN Raise(f, "EISDIR")
        ELSE IF Resolve(f, src) = Resolve(f, to) THEN Raise(f, "SameFileError")
        ELSE write_file(f, to, read_lines(f, src))

\* copy_file(src, dst), after make_dir(dst.parent) came back as `made`
remove_if_file(f, dst) == IF is_file(f, dst) THEN remove(f, dst) ELSE Done(f)
copy_after(removed, src, dst) ==
    IF removed.err # "" THEN removed ELSE shutil_copy(removed.fs, src, dst)
copy_made(made, src, dst) ==
    IF made.err # "" THEN made ELSE copy_after(remove_if_file(made.fs, dst), src, dst)
copy_file(f, src, dst) ==
    IF exists(f, src) THEN copy_made(make_dir(f, Parent(dst)), src, dst) ELSE Done(f)

\* touch_file(dst): make_dir(dst.parent); dst.touch()
touch(f, dst) == IF exists(f, dst) THEN Done(f) ELSE write_file(f, dst, << >>)
touch_made(made, dst) == IF made.err # "" THEN made ELSE touch(made.fs, dst)
touch_file(f, dst) == touch_made(make_dir(f, Parent(dst)), dst)

\* s.replace('/', '_')
RECURSIVE replace_sep(_)
replace_sep(s) ==
    IF s = "" THEN ""
    ELSE (IF At(s, 1) = "/" THEN "_" ELSE At(s, 1)) \o replace_sep(SubSeq(s, 2, Len(s)))

\* f'{keyboard}_{keymap}'.replace('/', '_'), the basename of the build tool's outputs
output_basename(kb, km) == replace_sep(kb \o "_" \o km)

\* qmk_hermit.py: where the .hex is expected and where it is copied to
output_path(qmk_tmp, kb, km) == Append(qmk_tmp, output_basename(kb, km) \o ".hex")
output_copy_path(f, into_path, kb, km) ==
    IF is_dir(f, into_path) THEN into_path \o PathParts(kb \o "_" \o km \o ".hex")
    ELSE into_path

\* what the collection of outputs comes to: the filesystem, the exception
\* raised if any, the destinations written, whether a warning was logged
Collected(f, err, dsts, warn) == [fs |-> f, err |-> err, copied |-> dsts, warned |-> warn]

\* build.py: for ext in args.extensions: copy temp_output to final_output
\* when it is a file, logger.warning when it is not
copy_output(acc, r, dst) ==
    IF r.err # "" THEN Collected(r.fs, r.err, acc.copied, acc.warned)
    ELSE Collected(r.fs, "", acc.copied \cup {dst}, acc.warned)
RECURSIVE copy_outputs(_, _, _, _, _, _)
copy_outputs(acc, exts, build_dir, into_dir, out_base, final_base) ==
    IF exts = << >> \/ acc.err # "" THEN acc
    ELSE LET temp_output == Append(build_dir, out_base \o "." \o Head(exts))
             final_output == Append(into_dir, final_base \o "." \o Head(exts))
         IN  copy_outputs(
                 IF is_file(acc.fs, temp_output)
                 THEN copy_output(acc, shutil_copy(acc.fs, temp_output, final_output),
                                  final_output)
                 ELSE Collected(acc.fs, "", acc.copied, TRUE),
                 Tail(exts), build_dir, into_dir, out_base, final_base)
-----------------------------------------------------------------------------
(* Population of the temporary firmware tree and staging of a layout.      *)

\* the elements of a set in the order an iteration yields them
SetToSeq(S) ==
    CHOOSE s \in [1..Cardinality(S) -> S] : \A i, j \in 1..Cardinality(S) : s[i] = s[j] => i = j

\* list(p.iterdir()): the entries of the directory p, as paths under p
iterdir(f, p) == LET ns == SetToSeq(listdir(f, p)) IN [i \in 1..Len(ns) |-> Append(p, ns[i])]

\* the `while q` loop of setup_temporary_qmk: an entry whose counterpart in
\* qmk_tmp is a directory is descended into, one whose counterpart does not
\* exist is linked, any other is left alone
RECURSIVE link_tree(_, _, _, _)
link_tree(r, q, qmk_home, qmk_tmp) ==
    IF q = << >> \/ r.err # "" THEN r
    ELSE LET src == Head(q)
             dst == qmk_tmp \o SubSeq(src, Len(qmk_home) + 1, Len(src))
         IN  IF is_dir(r.fs, dst)
             THEN IF is_dir(r.fs, src)
                  THEN link_tree(r, Tail(q) \o iterdir(r.fs, src), qmk_home, qmk_tmp)
                  ELSE Raise(r.fs, "ENOTDIR")
             ELSE IF ~exists(r.fs, dst)
             THEN link_tree(make_symlink(r.fs, src, dst), Tail(q), qmk_home, qmk_tmp)
             ELSE link_tree(r, Tail(q), qmk_home, qmk_tmp)

\* one statement of setup_temporary_qmk after the ones before it came to r
qmk_step(r, op, src, dst) ==
    IF r.err # "" THEN r
    ELSE CASE op = "make_dir"   -> make_dir(r.fs, dst)
           [] op = "copy_file"  -> copy_file(r.fs, src, dst)
           [] op = "touch_file" -> touch_file(r.fs, dst)
           [] op = "link_tree"  -> link_tree(r, iterdir(r.fs, src), src, dst)

\* setup_temporary_qmk(qmk_home, qmk_tmp)
setup_temporary_qmk(f, qmk_home, qmk_tmp) ==
    qmk_step(
        qmk_step(
            qmk_step(
                qmk_step(
                    qmk_step(
                        qmk_step(Done(f), "make_dir", << >>, Append(qmk_tmp, ".build")),
                        "make_dir", << >>, Append(qmk_tmp, "keyboards")),
                    "make_dir", << >>, Append(qmk_tmp, "layouts")),
                "copy_file", qmk_home \o <<"bin", "qmk">>, qmk_tmp \o <<"bin", "qmk">>),
            "touch_file", << >>, qmk_tmp \o <<"quantum", "version.h">>),
        "link_tree", qmk_home, qmk_tmp)

layout_dst_dir(src_dir, ltype, qmk_tmp) ==
    qmk_tmp \o <<"layouts", "hermit", ltype, path_hash(src_dir)>>

\* setup_temporary_layout(src_dir, ltype, qmk_tmp), os.listdir(src_dir)
\* having returned `order`
setup_temporary_layout(f, order, src_dir, ltype, qmk_tmp) ==
    LET dst_dir == layout_dst_dir(src_dir, ltype, qmk_tmp)
    IN  link_all(rmtree(f, dst_dir),
                 [i \in 1..Len(order) |-> [src |-> Append(src_dir, order[i]),
                                           dst |-> Append(dst_dir, order[i])]],
                 {})

\* s.split(): the words of s
words(s) == SelectSeq(split(s, " "), LAMBDA w : w # "")

\* set(keyboard_rules.get('LAYOUTS', '').split())
supported_layouts(rules) ==
    LET ws == words(IF "LAYOUTS" \in DOMAIN rules THEN rules["LAYOUTS"].s ELSE "")
    IN  {ws[i] : i \in 1..Len(ws)}
-----------------------------------------------------------------------------
(* One invocation of the direct entry point with an out-of-tree keyboard,  *)
(* system call by system call. The position of an invocation is a record:  *)
(* pc, the statement it is at; fresh, args.fresh; todo, the pairs the      *)
(* keyboard loop has still to link; q, the queue of setup_temporary_qmk;   *)
(* cur, the (src, dst) of the make_symlink under way and ret, the loop it  *)
(* returns to; err, the errno of the OSError caught or raised; made, the   *)
(* entries it created that are still there; lost, the entries of it that   *)
(* another invocation removed while it was running.                        *)

\* what a statement comes to: the filesystem and the position after it
Stepped(f, p) == [fs |-> f, proc |-> p]

At_(p, label) == [p EXCEPT !.pc = label]
Raised(p, errno) == [p EXCEPT !.pc = "raised", !.err = errno]

\* a system call came back as r: go on at `label`, or raise its OSError
go_on(r, p, label) ==
    IF r.err = "" THEN Stepped(r.fs, At_(p, label)) ELSE Stepped(r.fs, Raised(p, r.err))
\* the same inside the try block of make_symlink: the OSError is caught
try_on(r, p, label) ==
    IF r.err = "" THEN Stepped(r.fs, At_(p, label))
    ELSE Stepped(r.fs, [p EXCEPT !.pc = "ms_islink", !.err = r.err])

\* the statements of make_symlink(cur.src, cur.dst)
make_symlink_step(f, p) ==
    CASE p.pc = "ms_makedirs" -> try_on(makedirs(f, Parent(p.cur.dst)), p, "ms_symlink")
      [] p.pc = "ms_symlink"  -> try_on(symlink(f, p.cur.src, p.cur.dst), p, p.ret)
      [] p.pc = "ms_islink"   ->
            IF p.err = "EEXIST" /\ is_symlink(f, p.cur.dst)
            THEN Stepped(f, [p EXCEPT !.pc = "ms_remove", !.err = ""])
            ELSE Stepped(f, Raised(p, p.err))
      [] p.pc = "ms_remove"   -> go_on(remove(f, p.cur.dst), p, "ms_symlink2")
      [] p.pc = "ms_symlink2" -> go_on(symlink(f, p.cur.src, p.cur.dst), p, p.ret)

\* --fresh and setup_temporary_keyboard(src_dir, src_name, qmk_tmp)
keyboard_step(f, p, src_dir, src_name, qmk_tmp) ==
    CASE p.pc = "fresh"     -> Stepped(IF p.fresh THEN rmtree(f, qmk_tmp) ELSE f,
                                       At_(p, "kb_rmtree"))
      [] p.pc = "kb_rmtree" ->
            Stepped(rmtree(f, keyboard_dst_dir(src_dir, qmk_tmp)),
                    [p EXCEPT !.pc = "kb_next",
                              !.todo = link_pairs(SetToSeq(listdir(f, src_dir)), src_dir,
                                                  keyboard_dst_dir(src_dir, qmk_tmp),
                                                  src_name, path_hash(src_dir))])
      [] p.pc = "kb_next"   ->
            IF p.todo = << >> THEN Stepped(f, At_(p, "parse"))
            ELSE Stepped(f, [p EXCEPT !.pc = "ms_makedirs", !.ret = "kb_next",
                                      !.cur = Head(p.todo), !.todo = Tail(p.todo)])
      [] p.pc = "parse"     -> Stepped(f, At_(p, "mk_build"))

\* setup_temporary_qmk(qmk_home, qmk_tmp)
qmk_tmp_step(f, p, qmk_home, qmk_tmp) ==
    CASE p.pc = "mk_build"     -> go_on(make_dir(f, Append(qmk_tmp, ".build")), p, "mk_keyboards")
      [] p.pc = "mk_keyboards" -> go_on(make_dir(f, Append(qmk_tmp, "keyboards")), p, "mk_layouts")
      [] p.pc = "mk_layouts"   -> go_on(make_dir(f, Append(qmk_tmp, "layouts")), p, "cp_exists")
      [] p.pc = "cp_exists"    ->
            Stepped(f, At_(p, IF exists(f, qmk_home \o <<"bin", "qmk">>)
                              THEN "cp_mkdir" ELSE "tf_mkdir"))
      [] p.pc = "cp_mkdir"     -> go_on(make_dir(f, Append(qmk_tmp, "bin")), p, "cp_isfile")
      [] p.pc = "cp_isfile"    ->
            Stepped(f, At_(p, IF is_file(f, qmk_tmp \o <<"bin", "qmk">>)
                              THEN "cp_remove" ELSE "cp_copy"))
      [] p.pc = "cp_remove"    -> go_on(remove(f, qmk_tmp \o <<"bin", "qmk">>), p, "cp_copy")
      [] p.pc = "cp_copy"      ->
            go_on(shutil_copy(f, qmk_home \o <<"bin", "qmk">>, qmk_tmp \o <<"bin", "qmk">>),
                  p, "tf_mkdir")
      [] p.pc = "tf_mkdir"     -> go_on(make_dir(f, Append(qmk_tmp, "quantum")), p, "tf_touch")
      [] p.pc = "tf_touch"     ->
            go_on(touch(f, qmk_tmp \o <<"quantum", "version.h">>), p, "lt_init")
      [] p.pc = "lt_init"      ->
            Stepped(f, [p EXCEPT !.pc = "lt_next", !.q = iterdir(f, qmk_home)])
      [] p.pc = "lt_next"      ->
            IF p.q = << >> THEN Stepped(f, At_(p, "make"))
            ELSE LET src == Head(p.q)
                     dst == qmk_tmp \o SubSeq(src, Len(qmk_home) + 1, Len(src))
                 IN  IF is_dir(f, dst)
                     THEN IF is_dir(f, src)
                          THEN Stepped(f, [p EXCEPT !.q = Tail(p.q) \o iterdir(f, src)])
                          ELSE Stepped(f, Raised(p, "ENOTDIR"))
                     ELSE IF ~exists(f, dst)
                     THEN Stepped(f, [p EXCEPT !.pc = "ms_makedirs", !.ret = "lt_next",
                                               !.q = Tail(p.q),
                                               !.cur = [src |-> src, dst |-> dst]])
                     ELSE Stepped(f, [p EXCEPT !.q = Tail(p.q)])
      [] p.pc = "make"         -> Stepped(f, At_(p, "done"))

\* the next statement of an invocation
invocation_step(f, p, src_dir, src_name, qmk_home, qmk_tmp) ==
    IF p.pc \in {"ms_makedirs", "ms_symlink", "ms_islink", "ms_remove", "ms_symlink2"}
    THEN make_symlink_step(f, p)
    ELSE IF p.pc \in {"fresh", "kb_rmtree", "kb_next", "parse"}
    THEN keyboard_step(f, p, src_dir, src_name, qmk_tmp)
    ELSE qmk_tmp_step(f, p, qmk_home, qmk_tmp)

\* the entries of f that are not in g as they are in f
gone(f, g) == {x \in DOMAIN f : x \notin DOMAIN g \/ g[x] # f[x]}

Running(p) == p.pc \notin {"done", "raised"}
-----------------------------------------------------------------------------
(* Inputs, initial states and idle states of the variable groups.          *)

\* no rules file parsed yet
RulesInit ==
    /\ lines = << >>
    /\ prior_rules = EmptyDict
    /\ parsed_rules = EmptyDict
    /\ b_prior_rules = EmptyDict
    /\ b_parsed_rules = EmptyDict
    /\ nfiles = 0

\* the firmware tree: qmk_home (qmk_hermit.py), QMK_HOME = Path(__file__).parent
\* (build.py, inside the container)
QmkHome == <<"qmk">>
\* qmk_tmp, the temporary tree of qmk_hermit.py
QmkTmp == <<"tmp">>
\* the tree parse_keyboard_rules reads: qmk_tmp in qmk_hermit.py, QMK_HOME in build.py
RulesRoot(e) == IF e = "direct" THEN QmkTmp ELSE QmkHome

\* directories of that tree and above that may hold a rules.mk
RulesDirs(root) ==
    {<< >>, root} \cup {root \o <<"keyboards">> \o d : d \in {<< >>, <<"a">>, <<"a", "b">>,
                                                        <<"a", "b", "c">>, <<"a", "x">>, <<"x">>}}

\* the rules.mk of directory d appends the directory's own tag to P
RulesOf(d) == <<"P += " \o (IF d = << >> THEN "root" ELSE Name(d)) \o "\n">>

KeyboardNames == {"a/b/c", "a/b", "x"}

CascadeInit ==
    /\ entry \in {"direct", "container"}
    /\ \E have \in SUBSET RulesDirs(RulesRoot(entry)) :
          fs = MkFs(RulesDirs(RulesRoot(entry)),
                    [p \in {Append(d, "rules.mk") : d \in have} |-> RulesOf(Parent(p))])
    /\ keyboard_name \in KeyboardNames
    /\ stage = "start"
    /\ rules_read = << >>
    /\ keyboard_rules = EmptyDict

KeyboardIdle ==
    /\ fs = MkFs({<< >>}, << >>)
    /\ entry = "direct"
    /\ stage = "idle"
    /\ keyboard_name = ""
    /\ rules_read = << >>
    /\ keyboard_rules = EmptyDict

\* physical lines a rules.mk may hold, as file iteration yields them
RuleLines == {"A=1\n", "A+=2\n", "B?=3\n", "B?=4\n", "B := 5 \\\n", " 6 # x\n"}
RulesFiles == SeqsUpTo(RuleLines, MaxLines)

\* the arguments parse_known_args leaves over
ExtraArgs == {":clean", "::x", "-j4", "V=1"}

\* contents of the keyboard's rules.mk
BootloaderRules == {<< >>, <<"BOOTLOADER = atmel-dfu\n">>, <<"BOOTLOADER = caterina\n">>,
                    <<"BOOTLOADER = unknown-x\n">>, <<"BOOTLOADER = Atmel-DFU\n">>,
                    <<"BOOTLOADER ?= caterina\n">>}

\* every prefix of a path, the root included
Prefixes(p) == {SubSeq(p, 1, k) : k \in 0..Len(p)}

TargetIdle ==
    /\ keymap_name = ""
    /\ flash = "False"
    /\ extra_args = << >>
    /\ fragments = << >>
    /\ make_cmd = << >>
    /\ warned = FALSE

TargetInit ==
    /\ keyboard_name \in {"planck", "hermit/1a2b3c4d"}
    /\ entry \in {"direct", "container"}
    /\ \E rules \in BootloaderRules :
          LET dir == RulesRoot(entry) \o <<"keyboards">> \o PathParts(keyboard_name)
          IN  fs = MkFs(Prefixes(dir), (Append(dir, "rules.mk") :> rules))
    /\ stage = "start"
    /\ rules_read = << >>
    /\ keyboard_rules = EmptyDict
    /\ keymap_name \in {"default", "5e6f7a8b"}
    /\ flash \in {"False", "True", "l", "r"}
    /\ extra_args \in SeqsUpTo(ExtraArgs, MaxExtra)
    /\ fragments = << >>
    /\ make_cmd = << >>
    /\ warned = FALSE

\* make_targets, make_args = partition(...); make_cmd = ['make', ...]

StagingIdle ==
    /\ linked = {}
    /\ volumes = << >>
    /\ nstaged = 0
    /\ nedits = 0

\* the out-of-tree keyboard /usr/foo/foo.c: keyboard_path.parent and .stem
SrcDir == <<"usr", "foo">>
SrcName == "foo"

\* the names an entry of the keyboard directory may have; the ones in
\* SourceDirs are subdirectories, the others regular files
SourceNames == {"foo.c", "foo.h", "keymap.c", "keymap_gamer.c", "keymap.cpp",
                "config.h", "keymaps"}
SourceDirs == {"keymaps"}

\* os.listdir returns the entries in arbitrary order
Orders(S) ==
    {o \in [1..Cardinality(S) -> S] : \A i, j \in 1..Cardinality(S) : o[i] = o[j] => i = j}

\* volumes[dst] = src for every pair in turn
RECURSIVE assign_all(_)
assign_all(pairs) ==
    IF pairs = << >> THEN << >>
    ELSE LET last == pairs[Len(pairs)]
             before == assign_all(SubSeq(pairs, 1, Len(pairs) - 1))
         IN  (last.dst :> last.src) @@ before

\* every destination a source entry may be staged under
StagedNames ==
    UNION {{renames(n, SrcName, path_hash(SrcDir))[i] :
               i \in 1..Len(renames(n, SrcName, path_hash(SrcDir)))} : n \in SourceNames}

\* the links made by the program that are seen in the staged keyboard
\* directory, each with its target
StagedLinks(f) ==
    LET dst_dir == keyboard_dst_dir(SrcDir, QmkTmp)
    IN  {[dst |-> r, to |-> f[Phys(f, dst_dir \o r)].to] :
            r \in {x \in StagedNames :
                      /\ is_symlink(f, dst_dir \o x)
                      /\ f[Phys(f, dst_dir \o x)].by = "tool"}}

\* a keyboard directory of regular files and subdirectories
StageInit ==
    /\ \E have \in {S \in SUBSET SourceNames : Cardinality(S) <= MaxEntries} :
          fs = MkFs({<< >>, <<"usr">>, SrcDir, QmkTmp}
                       \cup {Append(SrcDir, n) : n \in have \cap SourceDirs},
                    [p \in {Append(SrcDir, n) : n \in have \ SourceDirs} |-> << >>])
    /\ entry \in {"direct", "container"}
    /\ stage = "source"
    /\ keyboard_name = ""
    /\ rules_read = << >>
    /\ keyboard_rules = EmptyDict

LayoutIdle == layout_type = PyNone

\* the out-of-tree layout directory, layout_path
LayoutDir == <<"usr", "lay">>

\* lines a source file of the layout may hold
LayoutLines == {"[0] = LAYOUT_60_ansi(\n", "[1] = LAYOUT_60_ansi(KC_A, MO(1)),\n",
                "[2] = LAYOUT_all(KC_C),\n", "[3] = LAYOUT_all (KC_C),\n",
                "KC_A, KC_B), // LAYOUT_all(\n",
                "a = LAYOUT_60_ansi(x); b = LAYOUT_60_ansi(y);\n"}
LayoutFiles == SeqsUpTo(LayoutLines, MaxLayoutLines)

\* a layout directory holding keymap.c, layout.h or both
LayoutInit ==
    /\ \E have \in SUBSET {"keymap.c", "layout.h"} :
          \E content \in [have -> LayoutFiles] :
             fs = MkFs({<< >>, <<"usr">>, LayoutDir},
                       [p \in {Append(LayoutDir, n) : n \in have} |-> content[Name(p)]])
    /\ entry \in {"direct", "container"}
    /\ stage = "layout"
    /\ keyboard_name = ""
    /\ rules_read = << >>
    /\ keyboard_rules = EmptyDict

EntryIdle ==
    /\ fresh = FALSE
    /\ effects = << >>
    /\ exit_code = 0

\* the keyboard arguments of a run; none of them names a file or a directory
\* of the working directory
KeyboardArgs == {"planck", "planck/rev6", "rev6", "nokbd", "readme.md", "planck/nope",
                 "rules.mk", "planck/readme.md"}

\* the firmware tree
FirmwareTree ==
    MkFs({<< >>, QmkHome, QmkHome \o <<"keyboards">>, QmkHome \o <<"keyboards", "planck">>,
          QmkHome \o <<"keyboards", "planck", "rev6">>},
         (QmkHome \o <<"keyboards", "planck", "rules.mk">> :> <<"BOOTLOADER = atmel-dfu\n">>)
         @@ (QmkHome \o <<"keyboards", "planck", "readme.md">> :> << >>))

\* what an earlier run left in qmk_tmp
EarlierRun ==
    (QmkTmp :> ToolDir) @@ (QmkTmp \o <<"keyboards">> :> ToolDir)
    @@ (QmkTmp \o <<"keyboards", "planck">> :> ToolLink(QmkHome \o <<"keyboards", "planck">>))
    @@ (QmkTmp \o <<".build">> :> ToolDir)
    @@ (QmkTmp \o <<".build", "planck_default.hex">> :>
           [kind |-> "file", to |-> << >>, data |-> << >>, by |-> "tool"])

EntryInit ==
    /\ entry \in {"direct", "container"}
    /\ fs \in {FirmwareTree, EarlierRun @@ FirmwareTree}
    /\ fresh \in (IF entry = "direct" THEN {FALSE, TRUE} ELSE {FALSE})
    /\ keyboard_name \in KeyboardArgs
    /\ stage = "args"
    /\ rules_read = << >>
    /\ keyboard_rules = EmptyDict
    /\ effects = << >>
    /\ exit_code = 0
-----------------------------------------------------------------------------
(* Inputs and idle states of the later stages of a run.                    *)

CollectIdle ==
    /\ into = PyNone
    /\ extensions = <<"hex">>
    /\ args_name = PyNone
    /\ returncode = 0
    /\ copied = {}

RunsIdle ==
    /\ layout_arg = "default"
    /\ nruns = 0

RaceIdle == procs = << >>

\* no subprocess
NoCpp == [pc |-> "idle", files |-> << >>, out_left |-> 0, err_left |-> 0,
          out_pipe |-> 0, err_pipe |-> 0, exited |-> FALSE]
CppIdle == proc = NoCpp

LaterIdle == CollectIdle /\ RunsIdle /\ RaceIdle /\ CppIdle

\* the directory the user wants the outputs in (mounted as /artefacts in the
\* container)
IntoDir == <<"out">>
\* the files the build tool may leave: <basename>.<ext>
OutputExts == {"hex", "bin"}
\* build.py: QMK_HOME / '.build'
BuildDir == Append(QmkHome, ".build")

\* a registered keyboard whose rules are in place, and the arguments about
\* the outputs: --into DEST, -f EXT..., --name NAME
CollectInit ==
    /\ entry \in {"direct", "container"}
    /\ keyboard_name \in {"planck", "planck/rev6"}
    /\ LET dir == RulesRoot(entry) \o <<"keyboards", "planck">>
       IN  fs = MkFs(Prefixes(dir) \cup {Append(dir, "rev6"), IntoDir, BuildDir, QmkTmp},
                     (Append(dir, "rules.mk") :> <<"BOOTLOADER = atmel-dfu\n">>))
    /\ stage = "start"
    /\ rules_read = << >>
    /\ keyboard_rules = EmptyDict
    /\ keymap_name = "default"
    /\ flash = "False"
    /\ extra_args = << >>
    /\ fragments = << >>
    /\ make_cmd = << >>
    /\ warned = FALSE
    /\ into \in {PyNone, PyStr("out")} \cup
                (IF entry = "direct" THEN {PyStr("out/fw.hex")} ELSE {})
    /\ extensions \in (IF entry = "direct" THEN {<<"hex">>}
                       ELSE {<<"hex">>, <<"hex", "bin">>, <<"bin">>, << >>})
    /\ args_name \in (IF entry = "direct" THEN {PyNone} ELSE {PyNone, PyStr("fw")})
    /\ returncode = 0
    /\ copied = {}

\* a symbolic link that was there before any run
Link(to) == [kind |-> "link", to |-> to, data |-> << >>, by |-> "user"]

\* the firmware install: two keyboards, a core file, a top-level file; the
\* out-of-tree keyboard and layout directories of the user next to it
InstallTree ==
    MkFs({<< >>, <<"usr">>, LayoutDir, SrcDir, QmkHome, QmkHome \o <<"keyboards">>,
          QmkHome \o <<"keyboards", "planck">>, QmkHome \o <<"keyboards", "planck", "rev6">>,
          QmkHome \o <<"quantum">>},
         (QmkHome \o <<"keyboards", "planck", "rules.mk">> :> <<"LAYOUTS = 60_ansi\n">>)
         @@ (QmkHome \o <<"keyboards", "planck", "rev6", "rules.mk">> :>
                <<"BOOTLOADER = atmel-dfu\n">>)
         @@ (QmkHome \o <<"quantum", "quantum.c">> :> << >>)
         @@ (QmkHome \o <<"Makefile">> :> << >>)
         @@ (Append(LayoutDir, "keymap.c") :> <<"[0] = LAYOUT_60_ansi(\n">>)
         @@ (Append(SrcDir, "foo.c") :> << >>)
         @@ (Append(SrcDir, "keymap.c") :> << >>)
         @@ (Append(SrcDir, "rules.mk") :> <<"LAYOUTS = 60_ansi\n">>))

\* what the trees may hold besides: the bin/qmk script of the install, a
\* dangling link in one of its keyboard directories, a `keymaps` subdirectory
\* in the out-of-tree keyboard directory
InstallExtras(opts) ==
    (IF "bin/qmk" \in opts
     THEN (QmkHome \o <<"bin">> :> Dir) @@ (QmkHome \o <<"bin", "qmk">> :> File(<<"#!\n">>))
     ELSE << >>)
    @@ (IF "lost" \in opts
        THEN (QmkHome \o <<"keyboards", "planck", "lost">> :> Link(<<"qmk", "gone">>))
        ELSE << >>)
    @@ (IF "keymaps" \in opts THEN (Append(SrcDir, "keymaps") :> Dir) ELSE << >>)

InstallOptions == {"bin/qmk", "lost", "keymaps"}

RunKeyboards == {"planck", "planck/rev6", "nokbd", "usr/foo/foo.c"}
RunLayouts == {"default", "usr/lay"}

\* the first run of the direct entry point: the temporary tree is not there
RunsInit ==
    /\ entry = "direct"
    /\ \E opts \in SUBSET InstallOptions : fs = InstallExtras(opts) @@ InstallTree
    /\ fresh \in BOOLEAN
    /\ keyboard_name \in RunKeyboards
    /\ layout_arg \in RunLayouts
    /\ nruns = 1
    /\ stage = "args"
    /\ rules_read = << >>
    /\ keyboard_rules = EmptyDict
    /\ effects = << >>
    /\ exit_code = 0

\* the invocations that run at the same time, and the out-of-tree keyboard
\* each of them is given: /usr/foo/foo.c and /usr/bar/bar.c
Invocations == {1, 2}
RaceSrcDir(i) == IF i = 1 THEN <<"usr", "foo">> ELSE <<"usr", "bar">>
RaceSrcName(i) == IF i = 1 THEN "foo" ELSE "bar"

\* the install and the two keyboard directories
RaceTree ==
    MkFs({<< >>, <<"usr">>, RaceSrcDir(1), RaceSrcDir(2), QmkHome, Append(QmkHome, "bin")},
         (QmkHome \o <<"bin", "qmk">> :> <<"#!\n">>)
         @@ (Append(QmkHome, "Makefile") :> << >>)
         @@ (Append(RaceSrcDir(1), "foo.c") :> << >>)
         @@ (Append(RaceSrcDir(2), "bar.c") :> << >>))

\* an invocation that has not begun
Begin(fresh_arg) ==
    [pc |-> "fresh", fresh |-> fresh_arg, todo |-> << >>, q |-> << >>,
     cur |-> [src |-> << >>, dst |-> << >>], ret |-> "", err |-> "",
     made |-> {}, lost |-> {}]

\* two invocations about to begin; the temporary tree is not there yet, or
\* is as an earlier run populated it
RaceInit ==
    /\ fs \in {RaceTree, setup_temporary_qmk(RaceTree, QmkHome, QmkTmp).fs}
    /\ procs \in [Invocations -> {Begin(b) : b \in BOOLEAN}]
    /\ entry = "direct"
    /\ stage = "args"
    /\ keyboard_name = ""
    /\ rules_read = << >>
    /\ keyboard_rules = EmptyDict

\* what a pipe holds before a writer blocks, in blocks
PipeCapacity == 2

\* __main__.py guess_layout_type is about to be called on a layout directory
\* that holds keymap.c, layout.h or both
CppInit ==
    /\ \E have \in SUBSET {"keymap.c", "layout.h"} :
          \E content \in [have -> LayoutFiles] :
             fs = MkFs({<< >>, <<"usr">>, LayoutDir},
                       [p \in {Append(LayoutDir, n) : n \in have} |-> content[Name(p)]])
    /\ entry = "container"
    /\ stage = "layout"
    /\ keyboard_name = ""
    /\ rules_read = << >>
    /\ keyboard_rules = EmptyDict
    /\ proc = [NoCpp EXCEPT !.pc = "glob"]
-----------------------------------------------------------------------------
(* Actions.                                                                *)

\* keyboard_rules = parse_keyboard_rules(qmk_tmp, tmp_keyboard_name)
ParseKeyboardRules ==
    /\ stage = "start" /\ entry = "direct"
    /\ rules_read' = find_rules(fs, QmkTmp, keyboard_name)
    /\ keyboard_rules' = parse_keyboard_rules(fs, QmkTmp, keyboard_name)
    /\ stage' = "parsed"
    /\ UNCHANGED <<fs, entry, keyboard_name>>
    /\ UNCHANGED <<rvars, tvars, svars, lvars, xvars>>
    /\ effects' = Append(effects, "parse_keyboard_rules")
    /\ UNCHANGED <<fresh, exit_code>>

\* keyboard_rules = parse_keyboard_rules(QMK_HOME / 'keyboards' / args.keyboard)
BuildParseKeyboardRules ==
    /\ stage = "start" /\ entry = "container"
    /\ LET keyboard_dir == QmkHome \o <<"keyboards">> \o PathParts(keyboard_name)
       IN  /\ rules_read' = build_find_rules(fs, keyboard_dir)
           /\ keyboard_rules' = build_parse_keyboard_rules(fs, keyboard_dir)
    /\ stage' = "parsed"
    /\ UNCHANGED <<fs, entry, keyboard_name>>
    /\ UNCHANGED <<rvars, tvars, svars, lvars, xvars>>
    /\ effects' = Append(effects, "parse_keyboard_rules")
    /\ UNCHANGED <<fresh, exit_code>>

\* parse_rulesmk(open(path), parsed_rules) for the next file of the cascade
ParseRulesFile(f) ==
    /\ nfiles < MaxFiles
    /\ lines' = f
    /\ prior_rules' = parsed_rules
    /\ parsed_rules' = parse_rulesmk(f, parsed_rules)
    /\ b_prior_rules' = b_parsed_rules
    /\ b_parsed_rules' = build_parse_rulesmk(f, b_parsed_rules)
    /\ nfiles' = nfiles + 1
    /\ UNCHANGED <<kvars, tvars, svars, lvars, evars, xvars>>

\* (qmk_hermit.py _main and build.py main hold the same text)
MakeCommand ==
    /\ stage = "parsed"
    /\ LET parts == partition(extra_args)
           t == make_target(keyboard_name, keymap_name, keyboard_rules, flash, parts.ts)
       IN  IF t.raised
           THEN /\ stage' = "raised"
                /\ UNCHANGED <<fragments, make_cmd, warned>>
           ELSE /\ stage' = "made"
                /\ fragments' = t.frags
                /\ make_cmd' = make_command(t.frags, parts.fs)
                /\ warned' = t.warned
    /\ UNCHANGED <<fs, entry, keyboard_name, rules_read, keyboard_rules>>
    /\ UNCHANGED <<keymap_name, flash, extra_args>>
    /\ UNCHANGED <<rvars, svars, lvars, evars, xvars>>

\* the user adds or deletes the entry n of the keyboard directory between runs
EditSource(n) ==
    /\ entry \in {"direct", "container"} /\ stage \in {"source", "staged", "raised"}
    /\ LET p == Append(SrcDir, n)
       IN  IF p \in DOMAIN fs
           THEN fs' = [r \in {x \in DOMAIN fs : ~IsPrefix(p, x)} |-> fs[r]]
           ELSE /\ Cardinality(listdir(fs, SrcDir)) < MaxEntries
                /\ fs' = (p :> IF n \in SourceDirs THEN Dir ELSE File(<< >>)) @@ fs
    /\ nedits < MaxEdits
    /\ nedits' = nedits + 1
    /\ UNCHANGED <<entry, stage, keyboard_name, rules_read, keyboard_rules>>
    /\ UNCHANGED <<linked, volumes, nstaged>>
    /\ UNCHANGED <<rvars, tvars, lvars, evars, xvars>>

\* tmp_keyboard_name, tmp_keyboard_path = setup_temporary_keyboard(
\*     keyboard_path.parent, keyboard_path.stem, qmk_tmp)
StageKeyboard ==
    /\ entry = "direct" /\ stage \in {"source", "staged", "raised"}
    /\ \E order \in Orders(listdir(fs, SrcDir)) :
          \E r \in {setup_temporary_keyboard(fs, order, SrcDir, SrcName, QmkTmp)} :
              /\ fs' = r.fs
              /\ linked' = r.linked
              /\ stage' = IF r.err = "" THEN "staged" ELSE "raised"
    /\ nstaged < MaxStagings
    /\ nstaged' = nstaged + 1
    /\ nedits' = 0
    /\ UNCHANGED <<entry, keyboard_name, rules_read, keyboard_rules, volumes>>
    /\ UNCHANGED <<rvars, tvars, lvars, evars, xvars>>

\* for src,dst in user_keyboard_files(keyboard_path.parent, keyboard_path.stem,
\*     tmp_keyboard_name): volumes[tmp_keyboard_path / dst] = src, 'ro'
KeyboardVolumes ==
    /\ entry = "container" /\ stage \in {"source", "staged"}
    /\ \E order \in Orders(listdir(fs, SrcDir)) :
          LET tmp_keyboard_name == "hermit" \o path_hash(SrcDir)
              pairs == user_keyboard_files(order, SrcDir, SrcName, tmp_keyboard_name)
          IN  volumes' = assign_all(pairs)
    /\ stage' = "staged"
    /\ nstaged < MaxStagings
    /\ nstaged' = nstaged + 1
    /\ nedits' = 0
    /\ UNCHANGED <<fs, entry, keyboard_name, rules_read, keyboard_rules>>
    /\ UNCHANGED linked
    /\ UNCHANGED <<rvars, tvars, lvars, evars, xvars>>

\* layout_type = guess_layout_type(layout_path); if not layout_type: return 1
GuessLayoutType ==
    /\ entry = "direct" /\ stage = "layout"
    /\ layout_type' = guess_layout_type(fs, LayoutDir)
    /\ stage' = IF Truthy(layout_type') THEN "guessed" ELSE "failed"
    /\ UNCHANGED <<fs, entry, keyboard_name, rules_read, keyboard_rules>>
    /\ UNCHANGED <<rvars, tvars, svars, evars, xvars>>

\* __main__.py: layout_type = guess_layout_type(layout_path);
\* if not layout_type: raise ValueError('could not guess layout type')
ContainerGuessLayoutType ==
    /\ entry = "container" /\ stage = "layout"
    /\ layout_type' = container_guess_layout_type(fs, LayoutDir)
    /\ stage' = IF Truthy(layout_type') THEN "guessed" ELSE "failed"
    /\ UNCHANGED <<fs, entry, keyboard_name, rules_read, keyboard_rules>>
    /\ UNCHANGED <<rvars, tvars, svars, evars, xvars>>

\* if args.fresh: shutil.rmtree(qmk_tmp, ignore_errors=True)
Fresh ==
    /\ entry = "direct" /\ stage = "args"
    /\ fs' = IF fresh THEN rmtree(fs, QmkTmp) ELSE fs
    /\ effects' = IF fs' # fs THEN Append(effects, "rmtree") ELSE effects
    /\ stage' = "keyboard"
    /\ UNCHANGED <<entry, keyboard_name, rules_read, keyboard_rules, fresh, exit_code>>
    /\ UNCHANGED <<rvars, tvars, svars, lvars, xvars>>

\* the else branch of `if keyboard_path.is_file()`: is_valid_qmk_keyboard or
\* logger.error and return 1
CheckKeyboard ==
    /\ entry = "direct" /\ stage = "keyboard"
    /\ ~is_file(fs, PathParts(keyboard_name))
    /\ IF is_valid_qmk_keyboard(fs, QmkHome, keyboard_name)
       THEN stage' = "start" /\ exit_code' = exit_code
       ELSE stage' = "exit" /\ exit_code' = 1
    /\ UNCHANGED <<fs, entry, keyboard_name, rules_read, keyboard_rules, fresh, effects>>
    /\ UNCHANGED <<rvars, tvars, svars, lvars, xvars>>

\* __main__.py run_build: with a keyboard argument that is neither a file nor
\* a directory, tmp_keyboard_name = str(args.keyboard), and the run goes on
\* to run_in_container(..., container_args()), which runs build.py
RunInContainer ==
    /\ entry = "container" /\ stage = "args"
    /\ ~exists(fs, PathParts(keyboard_name))
    /\ effects' = Append(effects, "run_in_container")
    /\ stage' = "start"
    /\ UNCHANGED <<fs, entry, keyboard_name, rules_read, keyboard_rules, fresh, exit_code>>
    /\ UNCHANGED <<rvars, tvars, svars, lvars, xvars>>

\* process = subprocess.Popen(make_cmd, ...); process.wait(): the build tool
\* exits with some code, having left some of its outputs
Make ==
    /\ stage = "made"
    /\ \E rc \in {0, 2} : \E outs \in SUBSET OutputExts :
          LET out_dir == IF entry = "direct" THEN QmkTmp ELSE BuildDir
              base == output_basename(keyboard_name, keymap_name)
          IN  /\ returncode' = rc
              /\ fs' = [p \in {Append(out_dir, base \o "." \o e) : e \in outs}
                           |-> ToolFile(<< >>)] @@ fs
    /\ stage' = "built"
    /\ effects' = Append(effects, "make")
    /\ UNCHANGED <<entry, keyboard_name, rules_read, keyboard_rules, fresh, exit_code>>
    /\ UNCHANGED <<into, extensions, args_name, copied>>
    /\ UNCHANGED <<rvars, tvars, svars, lvars, pvars, procs, proc>>

\* qmk_hermit.py _main, from `if process.returncode == 0` to its end: return 1
\* when make failed or the .hex is not there, otherwise copy it and fall off
\* the end (exit(None) is exit status 0); an exception of copy_file ends the
\* run with a traceback and exit status 1
CollectOutput ==
    /\ entry = "direct" /\ stage = "built"
    /\ IF returncode # 0
       THEN /\ exit_code' = 1 /\ stage' = "exit"
            /\ UNCHANGED <<fs, copied>>
       ELSE IF ~Truthy(into)
       THEN /\ exit_code' = 0 /\ stage' = "exit"
            /\ UNCHANGED <<fs, copied>>
       ELSE IF ~is_file(fs, output_path(QmkTmp, keyboard_name, keymap_name))
       THEN /\ exit_code' = 1 /\ stage' = "exit"
            /\ UNCHANGED <<fs, copied>>
       ELSE \E dst \in {output_copy_path(fs, PathParts(into.s), keyboard_name, keymap_name)} :
            \E r \in {copy_file(fs, output_path(QmkTmp, keyboard_name, keymap_name), dst)} :
               /\ fs' = r.fs
               /\ copied' = IF r.err = "" THEN {dst} ELSE {}
               /\ exit_code' = IF r.err = "" THEN 0 ELSE 1
               /\ stage' = IF r.err = "" THEN "exit" ELSE "raised"
    /\ UNCHANGED <<entry, keyboard_name, rules_read, keyboard_rules, fresh, effects>>
    /\ UNCHANGED <<into, extensions, args_name, returncode>>
    /\ UNCHANGED <<rvars, tvars, svars, lvars, pvars, procs, proc>>

\* build.py main, from `if process.returncode != 0` to its end: return
\* process.returncode when make failed, otherwise copy every output that is
\* a file, warn about the others, and fall off the end; exit(main()) makes
\* that the exit status of the container, which __main__.py returns
BuildCollectOutputs ==
    /\ entry = "container" /\ stage = "built"
    /\ IF returncode # 0
       THEN /\ exit_code' = returncode /\ stage' = "exit"
            /\ UNCHANGED <<fs, copied, warned>>
       ELSE IF ~Truthy(into)
       THEN /\ exit_code' = 0 /\ stage' = "exit"
            /\ UNCHANGED <<fs, copied, warned>>
       ELSE \E base \in {output_basename(keyboard_name, keymap_name)} :
            \E r \in {copy_outputs(Collected(fs, "", {}, warned), extensions, BuildDir,
                                   PathParts(into.s), base,
                                   IF Truthy(args_name) THEN args_name.s ELSE base)} :
               /\ fs' = r.fs
               /\ copied' = r.copied
               /\ warned' = r.warned
               /\ exit_code' = IF r.err = "" THEN 0 ELSE 1
               /\ stage' = IF r.err = "" THEN "exit" ELSE "raised"
    /\ UNCHANGED <<entry, keyboard_name, rules_read, keyboard_rules, fresh, effects>>
    /\ UNCHANGED <<into, extensions, args_name, returncode>>
    /\ UNCHANGED <<keymap_name, flash, extra_args, fragments, make_cmd>>
    /\ UNCHANGED <<rvars, svars, lvars, pvars, procs, proc>>

\* qmk_hermit.py _main, the keyboard argument names a file: the out-of-tree
\* keyboard of its directory is staged and the run goes on under the staged name
StageRunKeyboard ==
    /\ entry = "direct" /\ stage = "keyboard"
    /\ is_file(fs, PathParts(keyboard_name))
    /\ \E order \in Orders(listdir(fs, Parent(PathParts(keyboard_name)))) :
          \E r \in {setup_temporary_keyboard(fs, order, Parent(PathParts(keyboard_name)),
                                             SrcName, QmkTmp)} :
              /\ fs' = r.fs
              /\ linked' = r.linked
              /\ stage' = IF r.err = "" THEN "start" ELSE "raised"
              /\ exit_code' = IF r.err = "" THEN exit_code ELSE 1
    /\ keyboard_name' = "hermit/" \o path_hash(Parent(PathParts(keyboard_name)))
    /\ effects' = Append(effects, "setup_temporary_keyboard")
    /\ UNCHANGED <<entry, rules_read, keyboard_rules, fresh>>
    /\ UNCHANGED <<volumes, nstaged, nedits>>
    /\ UNCHANGED <<rvars, tvars, lvars, xvars>>

\* qmk_hermit.py _main, the layout argument: an out-of-tree layout directory
\* has its type guessed, checked against the keyboard's LAYOUTS and is
\* staged; any other argument is taken as the name of a layout or keymap
StageLayout ==
    /\ entry = "direct" /\ stage = "parsed"
    /\ IF ~is_dir(fs, PathParts(layout_arg))
       THEN /\ keymap_name' = layout_arg
            /\ stage' = "laid"
            /\ UNCHANGED <<fs, layout_type, exit_code, effects>>
       ELSE \E lt \in {guess_layout_type(fs, PathParts(layout_arg))} :
            /\ layout_type' = lt
            /\ IF ~Truthy(lt)
               THEN /\ stage' = "exit" /\ exit_code' = 1
                    /\ UNCHANGED <<fs, keymap_name, effects>>
               ELSE IF get(keyboard_rules, "LAYOUTS").isNone /\ "LAYOUTS" \in DOMAIN keyboard_rules
               THEN /\ stage' = "raised" /\ exit_code' = 1
                    /\ UNCHANGED <<fs, keymap_name, effects>>
               ELSE IF lt.s \notin supported_layouts(keyboard_rules)
               THEN /\ stage' = "exit" /\ exit_code' = 1
                    /\ UNCHANGED <<fs, keymap_name, effects>>
               ELSE \E r \in {setup_temporary_layout(
                                  fs, SetToSeq(listdir(fs, PathParts(layout_arg))),
                                  PathParts(layout_arg), lt.s, QmkTmp)} :
                    /\ fs' = r.fs
                    /\ keymap_name' = path_hash(PathParts(layout_arg))
                    /\ effects' = Append(effects, "setup_temporary_layout")
                    /\ stage' = IF r.err = "" THEN "laid" ELSE "raised"
                    /\ exit_code' = IF r.err = "" THEN exit_code ELSE 1
    /\ UNCHANGED <<entry, keyboard_name, rules_read, keyboard_rules, fresh>>
    /\ UNCHANGED <<flash, extra_args, fragments, make_cmd, warned>>
    /\ UNCHANGED <<rvars, svars, xvars>>

\* setup_temporary_qmk(qmk_home, qmk_tmp)
SetupTemporaryQmk ==
    /\ entry = "direct" /\ stage = "laid"
    /\ \E r \in {setup_temporary_qmk(fs, QmkHome, QmkTmp)} :
          /\ fs' = r.fs
          /\ stage' = IF r.err = "" THEN "populated" ELSE "raised"
          /\ exit_code' = IF r.err = "" THEN exit_code ELSE 1
    /\ effects' = Append(effects, "setup_temporary_qmk")
    /\ UNCHANGED <<entry, keyboard_name, rules_read, keyboard_rules, fresh>>
    /\ UNCHANGED <<rvars, tvars, svars, lvars, xvars>>

\* the next invocation, against the temporary tree the ones before it left
NextRun ==
    /\ entry = "direct" /\ stage \in {"populated", "exit", "raised"}
    /\ nruns < MaxRuns
    /\ nruns' = nruns + 1
    /\ fresh' \in BOOLEAN
    /\ keyboard_name' \in RunKeyboards
    /\ layout_arg' \in RunLayouts
    /\ stage' = "args"
    /\ rules_read' = << >>
    /\ keyboard_rules' = EmptyDict
    /\ keymap_name' = ""
    /\ layout_type' = PyNone
    /\ effects' = << >>
    /\ exit_code' = 0
    /\ linked' = {}
    /\ UNCHANGED <<fs, entry>>
    /\ UNCHANGED <<flash, extra_args, fragments, make_cmd, warned>>
    /\ UNCHANGED <<volumes, nstaged, nedits>>
    /\ UNCHANGED <<rvars, avars, procs, proc>>

\* invocation i executes its next statement; what it removes is taken off
\* the entries each invocation made, and counted as lost by the other
\* invocation if that one is still running
RaceStep(i) ==
    /\ Running(procs[i])
    /\ \E r \in {invocation_step(fs, procs[i], RaceSrcDir(i), RaceSrcName(i), QmkHome, QmkTmp)} :
          /\ fs' = r.fs
          /\ procs' = [k \in Invocations |->
                IF k = i
                THEN [r.proc EXCEPT !.made = (@ \ gone(fs, r.fs)) \cup gone(r.fs, fs)]
                ELSE [procs[k] EXCEPT
                         !.made = @ \ gone(fs, r.fs),
                         !.lost = IF Running(procs[k])
                                  THEN @ \cup (procs[k].made \cap gone(fs, r.fs))
                                  ELSE @]]
    /\ UNCHANGED <<entry, stage, keyboard_name, rules_read, keyboard_rules>>
    /\ UNCHANGED <<rvars, tvars, svars, lvars, evars, avars, pvars, proc>>

\* the frame of a step of guess_layout_type or of its subprocess
CppFrame ==
    /\ UNCHANGED <<fs, entry, keyboard_name, rules_read, keyboard_rules>>
    /\ UNCHANGED <<rvars, tvars, svars, evars, avars, pvars, procs>>

\* for f in src_dir.glob('keymap.*')
GlobKeymaps ==
    /\ entry = "container" /\ stage = "layout" /\ proc.pc = "glob"
    /\ proc' = [proc EXCEPT !.pc = "popen",
                          !.files = glob_prefix(fs, LayoutDir, LayoutOrder, "keymap.")]
    /\ UNCHANGED <<stage, layout_type>>
    /\ CppFrame

\* proc = subprocess.Popen(['proc', f], stdout=PIPE, stderr=PIPE, text=True):
\* the child has some amount of output to write to each pipe
PopenCpp ==
    /\ proc.pc = "popen" /\ proc.files # << >>
    /\ \E o, e \in 0..MaxOutput :
          proc' = [proc EXCEPT !.pc = "wait", !.files = Tail(proc.files),
                             !.out_left = o, !.err_left = e,
                             !.out_pipe = 0, !.err_pipe = 0, !.exited = FALSE]
    /\ UNCHANGED <<stage, layout_type>>
    /\ CppFrame

\* the child writes a block to its stdout; write blocks while the pipe is full
CppWriteStdout ==
    /\ proc.pc \in {"wait", "read"} /\ ~proc.exited
    /\ proc.out_left > 0 /\ proc.out_pipe < PipeCapacity
    /\ proc' = [proc EXCEPT !.out_left = @ - 1, !.out_pipe = @ + 1]
    /\ UNCHANGED <<stage, layout_type>>
    /\ CppFrame

\* the child writes a block to its stderr
CppWriteStderr ==
    /\ proc.pc \in {"wait", "read"} /\ ~proc.exited
    /\ proc.err_left > 0 /\ proc.err_pipe < PipeCapacity
    /\ proc' = [proc EXCEPT !.err_left = @ - 1, !.err_pipe = @ + 1]
    /\ UNCHANGED <<stage, layout_type>>
    /\ CppFrame

\* the child has written everything and exits
CppExit ==
    /\ proc.pc \in {"wait", "read"} /\ ~proc.exited
    /\ proc.out_left = 0 /\ proc.err_left = 0
    /\ proc' = [proc EXCEPT !.exited = TRUE]
    /\ UNCHANGED <<stage, layout_type>>
    /\ CppFrame

\* proc.wait() returns once the child has exited
WaitCpp ==
    /\ proc.pc = "wait" /\ proc.exited
    /\ proc' = [proc EXCEPT !.pc = "read"]
    /\ UNCHANGED <<stage, layout_type>>
    /\ CppFrame

\* for line in proc.stdout.readlines(): what the pipe holds is read up to
\* the end of file; stderr is never read
ReadStdout ==
    /\ proc.pc = "read" /\ proc.exited
    /\ proc' = [proc EXCEPT !.pc = "popen", !.out_pipe = 0]
    /\ UNCHANGED <<stage, layout_type>>
    /\ CppFrame

\* for k, _ in Counter(find_occurences()).most_common(1): return k
ReturnLayoutType ==
    /\ proc.pc = "popen" /\ proc.files = << >>
    /\ layout_type' = container_guess_layout_type(fs, LayoutDir)
    /\ stage' = IF Truthy(layout_type') THEN "guessed" ELSE "failed"
    /\ proc' = [proc EXCEPT !.pc = "returned"]
    /\ CppFrame
-----------------------------------------------------------------------------
(* Specifications.                                                         *)

\* the cascade of rules.mk files of a registered keyboard
CascadeNext == ParseKeyboardRules \/ BuildParseKeyboardRules
InitCascade == CascadeInit /\ RulesInit /\ TargetIdle /\ StagingIdle /\ LayoutIdle /\ EntryIdle /\ LaterIdle
SpecCascade == InitCascade /\ [][CascadeNext]_vars

\* rules files folded one after the other by both parsers
RulesNext == \E f \in RulesFiles : ParseRulesFile(f)
InitRules == RulesInit /\ KeyboardIdle /\ TargetIdle /\ StagingIdle /\ LayoutIdle /\ EntryIdle /\ LaterIdle
SpecRules == InitRules /\ [][RulesNext]_vars

\* from the keyboard's rules to the make command
TargetNext == ParseKeyboardRules \/ BuildParseKeyboardRules \/ MakeCommand
InitTarget == TargetInit /\ RulesInit /\ StagingIdle /\ LayoutIdle /\ EntryIdle /\ LaterIdle
SpecTarget == InitTarget /\ [][TargetNext]_vars

\* stagings of an out-of-tree keyboard, the user editing it in between
StageNext == (\E n \in SourceNames : EditSource(n)) \/ StageKeyboard \/ KeyboardVolumes
InitStage == StageInit /\ RulesInit /\ TargetIdle /\ StagingIdle /\ LayoutIdle /\ EntryIdle /\ LaterIdle
SpecStage == InitStage /\ [][StageNext]_vars

\* stagings of an out-of-tree keyboard that nobody edits
StageFixedNext == StageKeyboard \/ KeyboardVolumes
SpecStageFixed == InitStage /\ [][StageFixedNext]_vars

\* inference of the layout type of an out-of-tree layout directory
LayoutNext == GuessLayoutType \/ ContainerGuessLayoutType
InitLayout == LayoutInit /\ RulesInit /\ TargetIdle /\ StagingIdle /\ LayoutIdle /\ EntryIdle /\ LaterIdle
SpecLayout == InitLayout /\ [][LayoutNext]_vars

\* the front of a run with a registered keyboard name, up to the rules
EntryNext ==
    Fresh \/ CheckKeyboard \/ RunInContainer \/ ParseKeyboardRules \/ BuildParseKeyboardRules
InitEntry == EntryInit /\ RulesInit /\ TargetIdle /\ StagingIdle /\ LayoutIdle /\ LaterIdle
SpecEntry == InitEntry /\ [][EntryNext]_vars

\* a run with a registered keyboard from its rules to its exit status
CollectNext ==
    \/ ParseKeyboardRules \/ BuildParseKeyboardRules \/ MakeCommand
    \/ Make \/ CollectOutput \/ BuildCollectOutputs
InitCollect == CollectInit /\ RulesInit /\ StagingIdle /\ LayoutIdle /\ EntryIdle /\ RunsIdle /\ RaceIdle /\ CppIdle
SpecCollect == InitCollect /\ [][CollectNext]_vars

\* runs of the direct entry point, one after the other, from the arguments
\* to the populated temporary tree
RunsNext ==
    \/ Fresh \/ CheckKeyboard \/ StageRunKeyboard \/ ParseKeyboardRules \/ StageLayout \/ SetupTemporaryQmk
    \/ NextRun
InitRuns == RunsInit /\ RulesInit /\ TargetIdle /\ StagingIdle /\ LayoutIdle /\ CollectIdle /\ RaceIdle /\ CppIdle
SpecRuns == InitRuns /\ [][RunsNext]_vars

\* two invocations of the direct entry point at the same time
RaceNext == \E i \in Invocations : RaceStep(i)
InitRace ==
    RaceInit /\ RulesInit /\ TargetIdle /\ StagingIdle /\ LayoutIdle /\ EntryIdle
             /\ CollectIdle /\ RunsIdle /\ CppIdle
SpecRace == InitRace /\ [][RaceNext]_vars

\* guess_layout_type of the containerized entry point, its subprocesses and
\* their pipes
CppNext ==
    \/ GlobKeymaps \/ PopenCpp \/ CppWriteStdout \/ CppWriteStderr \/ CppExit
    \/ WaitCpp \/ ReadStdout \/ ReturnLayoutType
InitCpp ==
    CppInit /\ RulesInit /\ TargetIdle /\ StagingIdle /\ LayoutIdle /\ EntryIdle
            /\ CollectIdle /\ RunsIdle /\ RaceIdle
SpecCpp == InitCpp /\ [][CppNext]_vars
-----------------------------------------------------------------------------
(* Properties of the rules parser, stated on the file parsed last: the     *)
(* logical lines the parser saw, and the dict before and after each.       *)

\* a key has a value when the dict maps it to a string
HasValue(d, k) == k \in DOMAIN d /\ ~d[k].isNone

Logical == makefile_lines(lines)
Before(i) == fold_lines(prior_rules, SubSeq(Logical, 1, i - 1))
After(i) == fold_lines(prior_rules, SubSeq(Logical, 1, i))
BLogical == build_makefile_lines(lines)
BBefore(i) == build_fold_lines(b_prior_rules, SubSeq(BLogical, 1, i - 1))
BAfter(i) == build_fold_lines(b_prior_rules, SubSeq(BLogical, 1, i))

\* C1: in both implementations `K ?= v` sets K to v when K has no value from an
\* earlier line or file, and leaves K unchanged when it has one; ancestor `A=1`,
\* then leaf `A+=2`, `B?=3`, `B?=4` resolves to {A: "1 2", B: "3"}.
C1_DefaultAssign ==
    /\ \A i \in 1..Len(Logical) :
          LET m == regex_match(Logical[i])
          IN  (m.ok /\ m.op = "?=") =>
                 After(i)[m.name] = IF HasValue(Before(i), m.name)
                                    THEN Before(i)[m.name] ELSE PyStr(m.val)
    /\ \A i \in 1..Len(BLogical) :
          LET m == regex_match(BLogical[i])
          IN  (m.ok /\ m.op = "?=") =>
                 BAfter(i)[m.name] = IF HasValue(BBefore(i), m.name)
                                     THEN BBefore(i)[m.name] ELSE PyStr(m.val)
    /\ (/\ prior_rules = ("A" :> PyStr("1"))
        /\ b_prior_rules = ("A" :> PyStr("1"))
        /\ lines = <<"A+=2\n", "B?=3\n", "B?=4\n">>)
       => /\ parsed_rules = ("A" :> PyStr("1 2")) @@ ("B" :> PyStr("3"))
          /\ b_parsed_rules = ("A" :> PyStr("1 2")) @@ ("B" :> PyStr("3"))

\* the logical lines the continuation rule describes: each run of lines of
\* which all but the last end with a backslash, backslashes removed, joined
\* by newlines
RECURSIVE C2_JoinRun(_, _, _)
C2_JoinRun(ls, i, j) ==
    IF i = j THEN ls[j]
    ELSE rstrip_chr(ls[i], "\\") \o "\n" \o C2_JoinRun(ls, i + 1, j)
RECURSIVE C2_JoinedFrom(_, _)
C2_JoinedFrom(ls, i) ==
    IF i > Len(ls) THEN << >>
    ELSE LET j == LastOfRun(ls, i)
         IN  IF j = 0 THEN << >>
             ELSE <<C2_JoinRun(ls, i, j)>> \o C2_JoinedFrom(ls, j + 1)
C2_Joined(ls) == C2_JoinedFrom(stripped_lines(ls), 1)

\* C2: makefile_lines yields one logical line for every run of continued
\* physical lines, made of all of them joined by newlines, so that an
\* assignment whose first physical line ends with a backslash still assigns
\* its key.
C2_ContinuationJoined ==
    /\ makefile_lines(lines) = C2_Joined(lines)
    /\ build_makefile_lines(lines) = C2_Joined(lines)
    /\ \A i \in 1..Len(C2_Joined(lines)) :
          LET m == regex_match(C2_Joined(lines)[i])
          IN  m.ok => m.name \in DOMAIN parsed_rules /\ m.name \in DOMAIN b_parsed_rules

C14_SameGrammar == nfiles > 0 => parsed_rules = b_parsed_rules
-----------------------------------------------------------------------------
(* Properties of the rules cascade.                                        *)

\* C8: for namespace a/b/c, parse_keyboard_rules folds exactly the rules files
\* that exist at a, a/b and a/b/c under keyboards/, most general first; no
\* rules file of another directory contributes to the map.
C8_Expected ==
    LET parts == PathParts(keyboard_name)
    IN  existing_files(fs, [k \in 1..Len(parts) |->
            RulesRoot(entry) \o <<"keyboards">> \o SubSeq(parts, 1, k) \o <<"rules.mk">>])
RECURSIVE C8_Tags(_)
C8_Tags(paths) ==
    IF paths = << >> THEN ""
    ELSE LET d == Parent(Head(paths))
             t == IF d = << >> THEN "root" ELSE Name(d)
         IN  IF Len(paths) = 1 THEN t ELSE t \o " " \o C8_Tags(Tail(paths))
C8_OnlyNamespaceRules ==
    stage = "parsed" =>
        /\ rules_read = C8_Expected
        /\ keyboard_rules = IF C8_Expected = << >> THEN EmptyDict
                            ELSE ("P" :> PyStr(C8_Tags(C8_Expected)))

-----------------------------------------------------------------------------
(* Properties of target composition.                                       *)

\* the fragment the bootloader table gives for a side
C3_Fragment ==
    LET v == get(keyboard_rules, "BOOTLOADER")
        b == IF v.isNone THEN "" ELSE lower(v.s)
        side == IF flash = "r" THEN "right" ELSE "left"
    IN  IF contains(b, "dfu") THEN "dfu-split-" \o side
        ELSE IF contains(b, "caterina") THEN "avrdude-split-" \o side
        ELSE "flash"

\* C3: when the flash intent names a side, exactly one flash fragment follows
\* the keyboard and keymap identities: dfu-split-<side> for a bootloader that
\* contains dfu (any case), else avrdude-split-<side> for caterina, else the
\* generic flash together with a warning.
C3_SideFlashFragment ==
    (stage \in {"made", "raised"} /\ flash \in {"l", "r"}) =>
        /\ stage = "made"
        /\ Len(fragments) = 3 + Len(SelectSeq(extra_args, is_make_target))
        /\ SubSeq(fragments, 1, 3) = <<keyboard_name, keymap_name, C3_Fragment>>
        /\ startswith(make_cmd[2],
                      keyboard_name \o ":" \o keymap_name \o ":" \o C3_Fragment)
        /\ warned <=> (C3_Fragment = "flash")

\* the command the claim describes, with `strip(a)` for the stripping of the marker
C4_FlashFragments ==
    IF flash = "False" THEN {<< >>}
    ELSE {<<"flash">>, <<"dfu-split-left">>, <<"dfu-split-right">>,
          <<"avrdude-split-left">>, <<"avrdude-split-right">>}
RECURSIVE C4_Marked(_, _)
C4_Marked(xs, once) ==
    IF xs = << >> THEN << >>
    ELSE (IF At(Head(xs), 1) = ":"
          THEN <<IF once THEN Tail(Head(xs)) ELSE lstrip_chr(Head(xs), ":")>>
          ELSE << >>) \o C4_Marked(Tail(xs), once)
RECURSIVE C4_Unmarked(_)
C4_Unmarked(xs) ==
    IF xs = << >> THEN << >>
    ELSE (IF At(Head(xs), 1) = ":" THEN << >> ELSE <<Head(xs)>>) \o C4_Unmarked(Tail(xs))
C4_Shape(once) ==
    stage = "made" =>
        \E f \in C4_FlashFragments :
            make_cmd = <<"make",
                         join(<<keyboard_name, keymap_name>> \o f
                              \o C4_Marked(extra_args, once), ":")>>
                       \o C4_Unmarked(extra_args)

\* C4: the command is make <target> <args...>, the target being the ':'-join
\* of keyboard, keymap, the flash fragment if any, and every extra argument
\* that starts with ':' in the order supplied with its leading marker
\* stripped; the other extra arguments follow unmodified, in their order.
C4_MarkerStrippedOnce == C4_Shape(TRUE)

\* C4 as amended: every leading ':' of a marked argument is stripped.
C4_MarkersStripped == C4_Shape(FALSE)

C4_Witness ==
    /\ stage = "made"
    /\ flash = "r"
    /\ extra_args = <<"-j4", ":clean", "V=1">>
    /\ make_cmd = <<"make", "planck:default:dfu-split-right:clean", "-j4", "V=1">>

-----------------------------------------------------------------------------
(* Staging: the names the files are staged under, and what a staging       *)
(* leaves behind.                                                          *)

\* a staging has just completed
JustStaged == stage = "staged" /\ nstaged > 0 /\ nedits = 0

\* the name of the staged keyboard directory: dst_name of each entry point
StagedName == IF entry = "direct" THEN path_hash(SrcDir) ELSE "hermit" \o path_hash(SrcDir)

\* the (source, relative destination) pairs the last staging made
Staged ==
    IF entry = "direct"
    THEN {[src |-> l.src,
           dst |-> SubSeq(l.dst, Len(keyboard_dst_dir(SrcDir, QmkTmp)) + 1, Len(l.dst))] :
             l \in linked}
    ELSE {[src |-> volumes[d], dst |-> d] : d \in DOMAIN volumes}

C5_Variants == {"gamer"}

\* the entries the statement lists for the source file n staged under hash H
C5_Listed(n, H) ==
    IF n = SrcName \o ".c" THEN {<<H \o ".c">>}
    ELSE IF n = SrcName \o ".h" THEN {<<H \o ".h">>}
    ELSE IF n \in {"keymap.c", "keymap.h"} THEN {<<"keymaps", "default", n>>}
    ELSE IF \E v \in C5_Variants : n = "keymap_" \o v \o ".c"
    THEN {<<"keymaps", v, "keymap.c">> : v \in {w \in C5_Variants : n = "keymap_" \o w \o ".c"}}
    ELSE {<<n>>}

C5_KeymapForms(n) ==
    {ve \in C5_Variants \X {"c", "h"} :
        \E sep \in {"_", "-", " "} : startswith(n, "keymap" \o sep \o ve[1] \o "." \o ve[2])}
C5_Entries(n, D) ==
    IF n = SrcName \o ".c" THEN {<<D \o ".c">>, <<n>>}
    ELSE IF n = SrcName \o ".h" THEN {<<D \o ".h">>, <<n>>}
    ELSE IF C5_KeymapForms(n) # {}
    THEN {<<"keymaps", ve[1], "keymap." \o ve[2]>> : ve \in C5_KeymapForms(n)}
    ELSE IF startswith(n, "keymap.c") THEN {<<"keymaps", "default", "keymap.c">>}
    ELSE IF startswith(n, "keymap.h") THEN {<<"keymaps", "default", "keymap.h">>}
    ELSE {<<n>>}

C6_NothingLeftOver ==
    (JustStaged /\ entry = "direct") =>
        /\ \A l \in StagedLinks(fs) :
              \E n \in listdir(fs, SrcDir) :
                 /\ l.to = Append(SrcDir, n)
                 /\ \E i \in 1..Len(renames(n, SrcName, path_hash(SrcDir))) :
                       l.dst = renames(n, SrcName, path_hash(SrcDir))[i]
        /\ \A n \in listdir(fs, SrcDir) :
              \A i \in 1..Len(renames(n, SrcName, path_hash(SrcDir))) :
                 \E l \in StagedLinks(fs) : l.dst = renames(n, SrcName, path_hash(SrcDir))[i]

-----------------------------------------------------------------------------
(* Layout-type inference.                                                  *)

\* the call sites LAYOUT_<variant>( of a line: the variant is the run of word
\* characters between LAYOUT_ and the parenthesis
C7_SitesOf(line) ==
    {i \in 1..Len(line) :
        /\ StartsAt(line, i, "LAYOUT_")
        /\ SkipWord(line, i + 7) > i + 7
        /\ CharIn(line, SkipWord(line, i + 7), {"("})}
C7_VariantAt(line, i) == SubSeq(line, i + 7, SkipWord(line, i + 7) - 1)

\* every line of every file of the layout directory
C7_Lines == lines_of(fs, LayoutDir, SelectSeq(LayoutOrder, LAMBDA n : n \in listdir(fs, LayoutDir)))
C7_Variants == UNION {{C7_VariantAt(C7_Lines[k], i) : i \in C7_SitesOf(C7_Lines[k])} : k \in 1..Len(C7_Lines)}
C7_Count(v) ==
    Cardinality({ki \in (1..Len(C7_Lines)) \X (1..40) :
                    ki[2] \in C7_SitesOf(C7_Lines[ki[1]]) /\ C7_VariantAt(C7_Lines[ki[1]], ki[2]) = v})

\* C7 as stated: guess_layout_type counts every call site LAYOUT_<variant>( in
\* every source file of the layout directory, keyed by the variant alone, and
\* returns a variant of the highest count; with no call site it returns none
\* and the run ends as a failure.
C7_MajorityVariant ==
    stage \in {"guessed", "failed"} =>
        IF C7_Variants = {}
        THEN layout_type = PyNone /\ stage = "failed"
        ELSE /\ stage = "guessed" /\ ~layout_type.isNone
             /\ layout_type.s \in C7_Variants
             /\ \A v \in C7_Variants : C7_Count(v) <= C7_Count(layout_type.s)

-----------------------------------------------------------------------------
(* Rejection of a keyboard name the firmware tree does not hold.           *)

\* the keyboard argument matches no directory anywhere under keyboards/
C10_NoSuchKeyboard ==
    ~\E d \in {p \in DOMAIN fs : IsPrefix(QmkHome \o <<"keyboards">>, p)} :
        is_dir(fs, d \o PathParts(keyboard_name))

\* C10 as stated: in every entry point, a keyboard argument that is not an
\* out-of-tree file and matches no directory anywhere under keyboards/ ends
\* the run with a failure before any staging step, any removal or creation in
\* the temporary tree, any rules parsing and any build-tool or container
\* invocation takes place.
C10_RejectedFirst ==
    (stage \in {"args", "keyboard", "start", "parsed", "exit"} /\ C10_NoSuchKeyboard) =>
        /\ effects = << >>
        /\ stage \in {"args", "keyboard", "exit"}
        /\ stage = "exit" => exit_code # 0

-----------------------------------------------------------------------------
(* Claims about the exit status and the collection of outputs.             *)

\* the run is over
Exited == stage \in {"exit", "raised"} /\ Len(effects) > 0 /\ effects[Len(effects)] = "make"

\* the outputs the caller asked for, by extension
C11_Requested ==
    IF ~Truthy(into) THEN {}
    ELSE IF entry = "direct" THEN {"hex"}
    ELSE {extensions[i] : i \in 1..Len(extensions)}

\* the output with extension e was copied to the caller's destination
C11_Copied(e) == \E dst \in copied : is_file(fs, dst) /\ endswith(Name(dst), "." \o e)

\* C11: a run exits with status 0 only if the build tool exited with 0 and
\* every requested output was copied; in particular a run whose build tool
\* exited with 0 but left a requested output out exits with a non-zero status
C11_NoPartialSuccess ==
    (Exited /\ exit_code = 0) => (returncode = 0 /\ \A e \in C11_Requested : C11_Copied(e))
-----------------------------------------------------------------------------
(* Claims about the order of the stages of a run and about what a run      *)
(* writes.                                                                 *)

\* effect a comes before effect b in the run so far
EffectBefore(a, b) ==
    \E i, j \in 1..Len(effects) : i < j /\ effects[i] = a /\ effects[j] = b

\* C12: in a run of the direct entry point the rules are read after the
\* temporary tree was populated, and when all staging has finished the rules
\* the run parsed are the fold of the rules files of its keyboard as the
\* fully staged temporary tree holds them
C12_RulesOfStagedTree ==
    (entry = "direct" /\ stage = "populated")
        => /\ EffectBefore("setup_temporary_qmk", "parse_keyboard_rules")
           /\ keyboard_rules = parse_keyboard_rules(fs, QmkTmp, keyboard_name)

\* C15: whatever runs there were, the entries outside the temporary tree --
\* the firmware install and the user's source directories -- are the ones
\* that were there before the first run, unchanged
C15_OnlyTempTree ==
    \E opts \in SUBSET InstallOptions :
        [p \in {x \in DOMAIN fs : ~IsPrefix(QmkTmp, x)} |-> fs[p]]
            = InstallExtras(opts) @@ InstallTree
-----------------------------------------------------------------------------
(* Claims about invocations that run at the same time.                     *)

\* C13: of two invocations that share the install and the temporary root
\* and are given different out-of-tree keyboards, neither raises an error
\* and neither loses an entry it made to the other while it is running
C13_ConcurrentRunsSafe ==
    \A i \in Invocations : procs[i].pc # "raised" /\ procs[i].lost = {}
-----------------------------------------------------------------------------
(* Claims about the preprocessor subprocess.                               *)

\* the child has output left and every pipe it has output left for is full
C16_ChildBlocked ==
    /\ ~proc.exited
    /\ proc.out_left + proc.err_left > 0
    /\ proc.out_left > 0 => proc.out_pipe = PipeCapacity
    /\ proc.err_left > 0 => proc.err_pipe = PipeCapacity

\* C16: while guess_layout_type of the containerized entry point waits for
\* the preprocessor to exit, the preprocessor can go on -- it is never
\* blocked on a full pipe that nobody reads -- so that the wait returns
C16_WaitReturns == proc.pc = "wait" => ~C16_ChildBlocked

\* with the steps of parent and child taken fairly, every call returns
CppFair == SpecCpp /\ WF_vars(CppNext)
C16_Terminates == <>(proc.pc = "returned")
=============================================================================
